---- MODULE Spec2Model ----
(***************************************************************************)
(* Raster-to-vector pipeline of src/dataviz/tif2vectors2.py: the layer     *)
(* rewrite primitive, the thresholder, the per-raster extraction and the   *)
(* per-class stage chain driven by run_processing.                         *)
(*                                                                         *)
(* Geometries are abstract records: what the pipeline itself looks at      *)
(* (null / empty, flat type, validity, area) plus the place of the region  *)
(* they were extracted from.  GDAL/OGR calls whose result the code tests   *)
(* (status codes, exceptions, empty results) are nondeterministic.         *)
(***************************************************************************)
EXTENDS Integers, Sequences, FiniteSets, TLC

VARIABLES
    pc,            \* position of run_processing (or of the driver of a unit specification)
    force,         \* params['force']
    outFile,       \* the output path on disk: "absent", "old" (there before the run) or "new"
    rasters,       \* the input raster files: sequence of [crs, bands, grids]
    pct,           \* confidence threshold percentage per class
    ri,            \* raster index of the validation loop / polygonization loop
    openDs,        \* raster datasets currently open
    nOpen,         \* number of gdal.Open calls on input rasters so far
    created,       \* the output GeoPackage has been created by this run
    layer,         \* features of each class layer, in FID order
    schema,        \* field names of each class layer
    allPolyOk,     \* all_poly_ok_roads / all_poly_ok_buildings
    polyLog,       \* per class: [raster, ok, raised, added] of each initial_polygonize_band call
    cur,           \* class whose global post-processing has started last ("none": none yet)
    stOk,          \* per class: simp_ok, area_ok, fix_geom_ok, smooth_ok, dn_ok as assigned so far
    called,        \* per class: the stage functions actually called, in order
    success,       \* success_roads / success_buildings
    signals,       \* terminal signals put on the logger queue
    call,          \* unit specification of clear_and_repopulate_layer: inputs, faults, result
    faults,        \* engine failures met so far by the loop over the rasters and the stages
    par,           \* per class: simplify tolerance, minimum area, Chaikin iterations
    critical,      \* the except clause of lines 1012-1016 has run
    fn,            \* unit specification of the thresholder and of initial_polygonize_band
    st,            \* unit specification of the stage functions: one call, inputs and result
    ring,          \* unit specification of _apply_chaikin_to_ring: one call, inputs and result
    app,           \* VectorizationApp: run button, worker threads, log queue
    dnFaults,      \* per class: the engine faults met by its filter_layer_by_dn call
    outFile0       \* the output path on disk when the run started

vars == <<pc, force, outFile, rasters, pct, ri, openDs, nOpen, created,
          layer, schema, allPolyOk, polyLog, cur, stOk, called, success,
          signals, call, faults, par, critical, fn, st, ring, app, dnFaults,
          outFile0>>

(***************************************************************************)
(* Bounds of the model.                                                    *)
(***************************************************************************)
MaxRasters == 2      \* input rasters per run
MaxItems == 2        \* features / items of the layer rewrite unit specification
MaxFaults == 1       \* engine failures (error status, exception) per run up to the DN
                     \* filter of a class, per DN filter of a run, per call under test
MaxRingLen == 5      \* points of a ring handed to the Chaikin routine
MaxIterations == 2   \* Chaikin iterations of a call under test
MaxLogs == 3         \* log messages a worker thread puts on the queue before it ends
MaxRuns == 3         \* runs started from the form

(***************************************************************************)
(* Geometries and features.                                                *)
(***************************************************************************)
NullField == -1      \* a field that was never set (None)

NullGeom == [kind |-> "null", valid |-> FALSE, area |-> 0, at |-> <<0, 0>>, form |-> "raw"]

EmptyGeom == [kind |-> "empty", valid |-> TRUE, area |-> 0, at |-> <<0, 0>>, form |-> "raw"]

Poly(at, area, valid) ==
    [kind |-> "Polygon", valid |-> valid, area |-> area, at |-> at, form |-> "raw"]

\* geom is None or geom.IsEmpty()
IsNullOrEmpty(g) == g.kind \in {"null", "empty"}

\* the subsequence of s at the indices in keep, order preserved
RECURSIVE SelectIdx(_, _, _)
SelectIdx(s, keep, i) ==
    IF i > Len(s) THEN <<>>
    ELSE (IF i \in keep THEN <<s[i]>> ELSE <<>>) \o SelectIdx(s, keep, i + 1)

(***************************************************************************)
(* Engine faults of one call.  A fault is <<kind, index>>:                 *)
(*   "delStatus" i   DeleteFeature of the i-th feature returns an error    *)
(*   "setGeom"   j   SetGeometry of the j-th item returns an error         *)
(*   "create"    j   CreateFeature of the j-th item returns an error       *)
(*   "setField"  j   SetField of the j-th item raises (caught, logged)     *)
(* and at most one raise: <<"delRaise", i>> (DeleteFeature of the i-th     *)
(* feature raises), <<"addRaise", j>> (adding the j-th item raises), or    *)
(* <<"commitRaise", 0>> (CommitTransaction raises).                        *)
(***************************************************************************)
NoRaise == <<"none", 0>>

StatusFaults(n, m) ==
    ({"delStatus"} \X (1..n)) \cup ({"setGeom", "create", "setField"} \X (1..m))

RaiseFaults(n, m) ==
    {NoRaise, <<"commitRaise", 0>>} \cup ({"delRaise"} \X (1..n)) \cup ({"addRaise"} \X (1..m))

\* the sets of at most b faults drawn from S
RECURSIVE FaultSets(_, _)
FaultSets(S, b) ==
    IF b <= 0 THEN {{}}
    ELSE LET prev == FaultSets(S, b - 1)
         IN  prev \cup {p \cup {x} : p \in prev, x \in S}

FaultIdx(F, kind) == {x[2] : x \in {y \in F : y[1] = kind}}

(***************************************************************************)
(* clear_and_repopulate_layer.  A transaction is a snapshot of the layer   *)
(* taken by StartTransaction; RollbackTransaction restores it and          *)
(* CommitTransaction keeps the working content.                            *)
(***************************************************************************)
\* variant: the rollback is missing, the partial rewrite stays
RollbackMissing(snapshot, working) == working

RollbackTransaction(snapshot, working) == snapshot

\* variant: the commit does not take effect
CommitLost(snapshot, working) == snapshot

CommitTransaction(snapshot, working) == working

\* ogr.Feature(layer_defn) + SetGeometry(geom.Clone()) + SetField for the schema's fields
NewFeature(item, sch, fieldRaises) ==
    [geom   |-> item.geom,
     fields |-> [n \in sch |->
                    IF n \in DOMAIN item.attributes /\ ~fieldRaises
                    THEN item.attributes[n] ELSE NullField]]

\* lines 109-114: the features left after the delete loop
AfterClear(L, F, raise) ==
    LET n   == Len(L)
        del == {i \in 1..n : /\ i \notin FaultIdx(F, "delStatus")
                             /\ (raise[1] = "delRaise" => i < raise[2])}
    IN  [left |-> SelectIdx(L, (1..n) \ del, 1), deleted |-> Cardinality(del)]

\* lines 126-154: the items that become features of the layer
AddedIdx(items, F, raise) ==
    {j \in 1..Len(items) :
        /\ ~IsNullOrEmpty(items[j].geom)
        /\ j \notin FaultIdx(F, "setGeom")
        /\ j \notin FaultIdx(F, "create")
        /\ (raise[1] = "addRaise" => j < raise[2])}

RECURSIVE NewFeatures(_, _, _, _, _)
NewFeatures(items, idx, sch, F, j) ==
    IF j > Len(items) THEN <<>>
    ELSE (IF j \in idx
          THEN <<NewFeature(items[j], sch, j \in FaultIdx(F, "setField"))>>
          ELSE <<>>) \o NewFeatures(items, idx, sch, F, j + 1)

\* variant: a count mismatch rolls the transaction back and returns failure
clear_and_repopulate_layer_strict(L, sch, items, F, raise) ==
    IF Len(items) = 0 /\ Len(L) = 0
    THEN [ok |-> TRUE, layer |-> L, tx |-> FALSE, deleted |-> 0, added |-> 0]
    ELSE
      LET clr     == AfterClear(L, F, raise)
          idx     == AddedIdx(items, F, raise)
          working == clr.left \o NewFeatures(items, idx, sch, F, 1)
      IN  IF raise # NoRaise \/ clr.deleted # Len(L) \/ Cardinality(idx) # Len(items)
          THEN [ok |-> FALSE, layer |-> RollbackTransaction(L, working), tx |-> TRUE,
                deleted |-> clr.deleted, added |-> Cardinality(idx)]
          ELSE [ok |-> TRUE, layer |-> CommitTransaction(L, working), tx |-> TRUE,
                deleted |-> clr.deleted, added |-> Cardinality(idx)]

\* result: ok = the return value, layer = the layer's content afterwards,
\* tx = a transaction was started, deleted / added = deleted_count / added_count
clear_and_repopulate_layer(L, sch, items, F, raise) ==
    IF Len(items) = 0 /\ Len(L) = 0
    THEN [ok |-> TRUE, layer |-> L, tx |-> FALSE, deleted |-> 0, added |-> 0]
    ELSE
      LET clr     == AfterClear(L, F, raise)
          idx     == AddedIdx(items, F, raise)
          working == clr.left \o NewFeatures(items, idx, sch, F, 1)
      IN  IF raise[1] = "delRaise"
          THEN [ok |-> FALSE, layer |-> RollbackTransaction(L, clr.left), tx |-> TRUE,
                deleted |-> clr.deleted, added |-> 0]
          ELSE IF raise[1] \in {"addRaise", "commitRaise"}
          THEN [ok |-> FALSE, layer |-> RollbackTransaction(L, working), tx |-> TRUE,
                deleted |-> clr.deleted, added |-> Cardinality(idx)]
          ELSE [ok |-> TRUE, layer |-> CommitTransaction(L, working), tx |-> TRUE,
                deleted |-> clr.deleted, added |-> Cardinality(idx)]

\* what the call under test was given and what it did: pre / post = the layer's
\* features before / after
CallRecord(who, L, items, F, raise, res) ==
    [who |-> who, pre |-> L, items |-> items, faults |-> F, raise |-> raise,
     ok |-> res.ok, tx |-> res.tx, deleted |-> res.deleted, added |-> res.added,
     post |-> res.layer]

NoCall == CallRecord("none", <<>>, <<>>, {}, NoRaise,
                     [ok |-> TRUE, tx |-> FALSE, deleted |-> 0, added |-> 0, layer |-> <<>>])


(***************************************************************************)
(* Thresholder: run_processing lines 753-754 and initial_polygonize_band   *)
(* lines 675-679.  Percentages are whole numbers; for these the float      *)
(* product pct / 100.0 * 255 truncates to the same integer as the exact    *)
(* quotient pct * 255 / 100.                                               *)
(***************************************************************************)
Max2(a, b) == IF a >= b THEN a ELSE b

Min2(a, b) == IF a <= b THEN a ELSE b

\* Python int(num / den): truncation towards zero
IntTrunc(num, den) == IF num >= 0 THEN num \div den ELSE -((-num) \div den)

\* nearest integer, halves upwards
RoundHalfUp(num, den) == (2 * num + den) \div (2 * den)

\* variant: the product is rounded instead of truncated
threshold_255_rounded(p) == Max2(0, Min2(255, RoundHalfUp(p * 255, 100)))

\* max(0, min(255, int(confidence_threshold_pct / 100.0 * 255)))
threshold_255(p) == Max2(0, Min2(255, IntTrunc(p * 255, 100)))

\* one cell of (band_array >= threshold_value).astype(np.uint8)
MaskCell(pixel, threshold_value) == IF pixel >= threshold_value THEN 1 ELSE 0

\* a band is a grid of two rows: <<row1, row2>>, rows of equal length
Mask(grid, threshold_value) ==
    [r \in 1..2 |-> [c \in 1..Len(grid[1]) |-> MaskCell(grid[r][c], threshold_value)]]

RECURSIVE SeqSum(_)
SeqSum(s) == IF s = <<>> THEN 0 ELSE s[1] + SeqSum(Tail(s))

\* variant: the cells of the mask are counted, not the foreground cells
PixelsCounted(mask) == Len(mask[1]) + Len(mask[2])

\* np.sum(thresholded_array)
PixelsAbove(mask) == SeqSum(mask[1]) + SeqSum(mask[2])

(***************************************************************************)
(* gdal.Polygonize with 8CONNECTED=YES on a two-row mask.  Two foreground  *)
(* cells of adjacent columns are always 8-neighbours, so a region is a     *)
(* maximal run of columns holding a foreground cell.  Its area is its cell *)
(* count; its ring touches itself, and the polygon is invalid, where two   *)
(* adjacent columns meet only at a corner.                                 *)
(***************************************************************************)
ColCells(mask, c) == mask[1][c] + mask[2][c]

CornerOnly(mask, c) ==
    /\ ColCells(mask, c) = 1 /\ ColCells(mask, c + 1) = 1
    /\ mask[1][c] # mask[1][c + 1]

\* the column runs <<first, last>> of the mask, left to right, from column c
RECURSIVE Runs(_, _, _)
Runs(mask, c, start) ==
    LET w == Len(mask[1]) IN
    IF c > w THEN (IF start > 0 THEN <<(<<start, w>>)>> ELSE <<>>)
    ELSE IF ColCells(mask, c) > 0
         THEN Runs(mask, c + 1, IF start > 0 THEN start ELSE c)
         ELSE (IF start > 0 THEN <<(<<start, c - 1>>)>> ELSE <<>>) \o Runs(mask, c + 1, 0)

RunArea(mask, run) == SeqSum([i \in 1..(run[2] - run[1] + 1) |-> ColCells(mask, run[1] + i - 1)])

RunValid(mask, run) == \A c \in run[1]..(run[2] - 1) : ~CornerOnly(mask, c)

\* the features Polygonize makes of the mask of raster r: DN = the mask value 1
Polygonize(mask, r, sch) ==
    LET runs == Runs(mask, 1, 0) IN
    [k \in 1..Len(runs) |->
        [geom   |-> Poly(<<r, runs[k][1]>>, RunArea(mask, runs[k]), RunValid(mask, runs[k])),
         fields |-> [n \in sch |-> IF n = "DN" THEN 1 ELSE NullField]]]

(***************************************************************************)
(* initial_polygonize_band(raster_ds, band_num, threshold_255, out_layer). *)
(* e is what the engine does on this call:                                 *)
(*   e.read   ReadAsArray succeeds                                         *)
(*   e.mem    the in-memory raster is set up                               *)
(*   e.poly   "ok", "status" (Polygonize returns non-zero) or "raise"      *)
(*   e.part   features Polygonize had written when it failed               *)
(* Result: ok = return value, raised = an exception leaves the function,   *)
(* layer = out_layer afterwards, added = count_after - count_before.       *)
(***************************************************************************)
\* gdal.Polygonize(..., out_layer, dn_field_index, ...) writes its features after
\* those the layer holds
\* variant: the layer is overwritten by each raster's features
ReplaceFeatures(L, new) == new

AppendFeatures(L, new) == L \o new

\* what the engine may do on one initial_polygonize_band call
ExtractEnv(read, mem, poly, part) == [read |-> read, mem |-> mem, poly |-> poly, part |-> part]

NominalEnv == ExtractEnv(TRUE, TRUE, "ok", 0)

ExtractEnvs ==
    {ExtractEnv(FALSE, TRUE, "ok", 0), ExtractEnv(TRUE, FALSE, "ok", 0), NominalEnv}
    \cup {ExtractEnv(TRUE, TRUE, p, k) : p \in {"status", "raise"}, k \in 0..1}

initial_polygonize_band(raster_ds, band_num, threshold, L, sch, r, e) ==
    LET threshold_value   == threshold
        thresholded_array == Mask(raster_ds.grids[band_num], threshold_value)
        feats             == Polygonize(thresholded_array, r, sch)
        done              == IF e.poly = "ok" THEN feats
                             ELSE SubSeq(feats, 1, Min2(e.part, Len(feats)))
    IN  IF band_num <= 0 \/ band_num > raster_ds.bands
        THEN [ok |-> FALSE, raised |-> FALSE, layer |-> L, added |-> 0, step |-> "band"]
        ELSE IF ~e.read
        THEN [ok |-> FALSE, raised |-> FALSE, layer |-> L, added |-> 0, step |-> "read"]
        ELSE IF PixelsAbove(thresholded_array) = 0
        THEN [ok |-> TRUE, raised |-> FALSE, layer |-> L, added |-> 0, step |-> "nopixels"]
        ELSE IF ~e.mem
        THEN [ok |-> FALSE, raised |-> FALSE, layer |-> L, added |-> 0, step |-> "mem"]
        ELSE IF "DN" \notin sch
        THEN [ok |-> FALSE, raised |-> FALSE, layer |-> L, added |-> 0, step |-> "dn"]
        ELSE LET out_layer == AppendFeatures(L, done) IN
             [ok |-> e.poly = "ok", raised |-> e.poly = "raise", layer |-> out_layer,
              added |-> Len(out_layer) - Len(L), step |-> "polygonize"]


(***************************************************************************)
(* The stage functions.  Each reads the layer, builds the item list and    *)
(* hands it to clear_and_repopulate_layer.  E is the set of engine faults  *)
(* of the call; on top of the rewrite's faults, <<kind, i>> for the i-th   *)
(* feature read:                                                           *)
(*   "simpRaise" / "simpEmpty"   SimplifyPreserveTopology raises / is empty*)
(*   "areaRaise"                 Area raises                               *)
(*   "smoothNone"                no polygon part survives the smoothing    *)
(*   "smoothBad"                 the smoothed multi-polygon is invalid and *)
(*                               MakeValid does not repair it              *)
(*   "smoothFixed"               ... and MakeValid repairs it              *)
(*   "smoothFixedColl"           ... into a geometry collection            *)
(*   "dnRaise"                   reading the DN field raises               *)
(* mv[i] is what MakeValid does with the i-th feature's geometry.          *)
(***************************************************************************)
Item(geom, f) == [geom |-> geom, attributes |-> f.fields]

\* the stage returned without calling the rewrite
NoRewrite(L, ok) ==
    [ok |-> ok, layer |-> L, rewrite |-> FALSE, items |-> <<>>,
     tx |-> FALSE, deleted |-> 0, added |-> 0]

\* success = clear_and_repopulate_layer(layer, items, ...); return success
Rewrite(L, sch, items, F, raise) ==
    LET res == clear_and_repopulate_layer(L, sch, items, F, raise) IN
    [ok |-> res.ok, layer |-> res.layer, rewrite |-> TRUE, items |-> items,
     tx |-> res.tx, deleted |-> res.deleted, added |-> res.added]

\* geom_clone.SimplifyPreserveTopology(tolerance)
SimplifyPreserveTopology(g) == [g EXCEPT !.form = "simplified"]

\* variant: a feature whose simplification fails gets no geometry
SimplifyItemsDropFailed(L, E) ==
    [i \in 1..Len(L) |->
        LET geom == L[i].geom IN
        Item(IF geom.kind = "null" THEN NullGeom
             ELSE IF i \in FaultIdx(E, "simpRaise") \/ i \in FaultIdx(E, "simpEmpty")
                       \/ IsNullOrEmpty(SimplifyPreserveTopology(geom))
             THEN NullGeom
             ELSE SimplifyPreserveTopology(geom), L[i])]

\* lines 196-212
SimplifyItems(L, E) ==
    [i \in 1..Len(L) |->
        LET geom == L[i].geom IN
        Item(IF geom.kind = "null" THEN NullGeom
             ELSE IF i \in FaultIdx(E, "simpRaise") \/ i \in FaultIdx(E, "simpEmpty")
                       \/ IsNullOrEmpty(SimplifyPreserveTopology(geom))
             THEN geom
             ELSE SimplifyPreserveTopology(geom), L[i])]

\* variant: no early return for tolerance <= 0
simplify_layer_always(L, sch, tolerance, E, raise) ==
    IF Len(L) = 0 THEN NoRewrite(L, TRUE)
    ELSE Rewrite(L, sch, SimplifyItems(L, E), E, raise)

simplify_layer(L, sch, tolerance, E, raise) ==
    IF tolerance <= 0 THEN NoRewrite(L, TRUE)
    ELSE IF Len(L) = 0 THEN NoRewrite(L, TRUE)
    ELSE Rewrite(L, sch, SimplifyItems(L, E), E, raise)

\* variant: a feature whose area equals min_area is removed
AreaKeepStrict(L, min_area, E) ==
    {i \in 1..Len(L) : /\ ~IsNullOrEmpty(L[i].geom)
                       /\ i \notin FaultIdx(E, "areaRaise")
                       /\ L[i].geom.area > min_area}

\* lines 249-265: keep
AreaKeep(L, min_area, E) ==
    {i \in 1..Len(L) : /\ ~IsNullOrEmpty(L[i].geom)
                       /\ i \notin FaultIdx(E, "areaRaise")
                       /\ L[i].geom.area >= min_area}

filter_layer_by_min_area(L, sch, min_area, E, raise) ==
    IF min_area <= 0 THEN NoRewrite(L, TRUE)
    ELSE IF Len(L) = 0 THEN NoRewrite(L, TRUE)
    ELSE LET kept == SelectIdx(L, AreaKeep(L, min_area, E), 1)
         IN  Rewrite(L, sch, [k \in 1..Len(kept) |-> Item(kept[k].geom, kept[k])], E, raise)


(***************************************************************************)
(* fix_layer_geometries.  What geom.MakeValid() does is the engine's       *)
(* choice: out = "raise", "none" (None) or "geom", a geometry of flat type *)
(* kind; a GeometryCollection has parts, and asmValid is whether the       *)
(* multi-polygon assembled from its valid polygon parts is valid.          *)
(***************************************************************************)
MV(out, kind, valid, parts, asmValid) ==
    [out |-> out, kind |-> kind, valid |-> valid, parts |-> parts, asmValid |-> asmValid]

Part(kind, valid, area) == [kind |-> kind, valid |-> valid, area |-> area]

MakeValidResults ==
    {MV("raise", "none", FALSE, <<>>, FALSE),
     MV("none", "none", FALSE, <<>>, FALSE),
     MV("geom", "empty", TRUE, <<>>, FALSE),
     MV("geom", "MultiPolygon", TRUE, <<>>, FALSE),
     MV("geom", "MultiPolygon", FALSE, <<>>, FALSE),
     MV("geom", "Polygon", TRUE, <<>>, FALSE),
     MV("geom", "GeometryCollection", TRUE,
        <<Part("Polygon", TRUE, 1), Part("LineString", TRUE, 0)>>, TRUE),
     MV("geom", "GeometryCollection", TRUE, <<Part("LineString", TRUE, 0)>>, TRUE),
     MV("geom", "GeometryCollection", TRUE,
        <<Part("Polygon", TRUE, 1), Part("Polygon", TRUE, 1)>>, FALSE),
     MV("geom", "GeometryCollection", TRUE,
        <<Part("Polygon", FALSE, 1), Part("Polygon", TRUE, 1)>>, TRUE)}

\* layer.GetGeomType() of a layer created with geom_type=ogr.wkbMultiPolygon
TargetFlatGeomType == "MultiPolygon"

\* variant: every polygon part is extracted, valid or not
PolygonPartsUnchecked(parts) ==
    SelectIdx(parts, {i \in 1..Len(parts) : parts[i].kind = "Polygon"}, 1)

\* line 555: the parts of the collection that are added to collection_extract
ValidPolygonParts(parts) ==
    SelectIdx(parts, {i \in 1..Len(parts) : parts[i].kind = "Polygon" /\ parts[i].valid}, 1)

\* lines 524-580 for one feature: final_geom (kind "null" when the feature is dropped)
\* and what the feature adds to invalid_count, repaired_count, discarded_count
FixGeom(geom, mv) ==
    LET drop(inv, disc) == [final |-> NullGeom, invalid |-> inv, repaired |-> 0,
                            discarded |-> disc]
        keep(g)         == [final |-> g, invalid |-> 1, repaired |-> 1, discarded |-> 0]
    IN
    IF IsNullOrEmpty(geom) THEN drop(0, 1)
    ELSE IF geom.valid
    THEN [final |-> geom, invalid |-> 0, repaired |-> 0, discarded |-> 0]
    ELSE IF mv.out = "raise" THEN drop(1, 2)
    ELSE IF mv.out = "none" \/ mv.kind = "empty" THEN drop(1, 1)
    ELSE IF mv.kind = TargetFlatGeomType
    THEN (IF mv.valid
          THEN keep([geom EXCEPT !.kind = mv.kind, !.valid = TRUE, !.form = "repaired"])
          ELSE drop(1, 1))
    ELSE IF mv.kind = "GeometryCollection"
            /\ TargetFlatGeomType \in {"Polygon", "MultiPolygon"}
    THEN LET ext == ValidPolygonParts(mv.parts) IN
         IF Len(ext) > 0
         THEN (IF mv.asmValid
               THEN keep([geom EXCEPT !.kind = TargetFlatGeomType, !.valid = TRUE,
                                      !.area = SeqSum([k \in 1..Len(ext) |-> ext[k].area]),
                                      !.form = "extracted"])
               ELSE drop(1, 1))
         ELSE drop(1, 1)
    ELSE drop(1, 1)

\* the engine's MakeValid answers, drawn from results, for the features of L:
\* only invalid geometries ask
RECURSIVE MakeValidChoices(_, _)
MakeValidChoices(L, results) ==
    IF L = <<>> THEN {<<>>}
    ELSE LET opts == IF ~IsNullOrEmpty(L[1].geom) /\ ~L[1].geom.valid
                     THEN results
                     ELSE {MV("none", "none", FALSE, <<>>, FALSE)}
         IN  {<<x>> \o rest : x \in opts, rest \in MakeValidChoices(Tail(L), results)}

FixCounts(L, mv) ==
    [invalid   |-> SeqSum([i \in 1..Len(L) |-> FixGeom(L[i].geom, mv[i]).invalid]),
     repaired  |-> SeqSum([i \in 1..Len(L) |-> FixGeom(L[i].geom, mv[i]).repaired]),
     discarded |-> SeqSum([i \in 1..Len(L) |-> FixGeom(L[i].geom, mv[i]).discarded])]

\* variant: the layer is rewritten with its non-empty geometries as they are
fix_layer_geometries_unrepaired(L, sch, mv, E, raise) ==
    IF Len(L) = 0 THEN NoRewrite(L, TRUE)
    ELSE LET keepIdx == {i \in 1..Len(L) : ~IsNullOrEmpty(L[i].geom)}
             same    == [i \in 1..Len(L) |-> Item(L[i].geom, L[i])]
         IN  Rewrite(L, sch, SelectIdx(same, keepIdx, 1), E, raise)

fix_layer_geometries(L, sch, mv, E, raise) ==
    IF Len(L) = 0 THEN NoRewrite(L, TRUE)
    ELSE LET keepIdx == {i \in 1..Len(L) : FixGeom(L[i].geom, mv[i]).final.kind # "null"}
             fixed   == [i \in 1..Len(L) |-> Item(FixGeom(L[i].geom, mv[i]).final, L[i])]
         IN  Rewrite(L, sch, SelectIdx(fixed, keepIdx, 1), E, raise)


(***************************************************************************)
(* _apply_chaikin_to_ring(points, iterations).  A point is <<x, y>>; the   *)
(* coordinates of the result are whole numbers of 1/denom, denom = 4^n     *)
(* after n passes, which holds 0.75 * a + 0.25 * b exactly.                *)
(***************************************************************************)
\* variant: the weights of the first emitted point are those of the second
ChaikinRSwapped(p, q) == <<p[1] + 3 * q[1], p[2] + 3 * q[2]>>

\* lines 332-333: r = 0.75 * p_i + 0.25 * p_i_plus_1, in quarters
ChaikinR(p, q) == <<3 * p[1] + q[1], 3 * p[2] + q[2]>>

\* lines 334-335: q = 0.25 * p_i + 0.75 * p_i_plus_1, in quarters
ChaikinQ(p, q) == <<p[1] + 3 * q[1], p[2] + 3 * q[2]>>

\* variant: one point per segment
ChaikinPassSingle(P) ==
    [j \in 1..(Len(P) - 1) |-> ChaikinR(P[j], P[j + 1])]

\* lines 327-337: temp_ring_pts, r then q for each segment P_i, P_i+1
ChaikinPass(P) ==
    [j \in 1..(2 * (Len(P) - 1)) |->
        IF j % 2 = 1 THEN ChaikinR(P[(j + 1) \div 2], P[(j + 1) \div 2 + 1])
        ELSE ChaikinQ(P[j \div 2], P[j \div 2 + 1])]

\* variant: the new ring is not closed
CloseRingMissing(T) == T

\* line 340: temp_ring_pts.append(temp_ring_pts[0])
CloseRing(T) == Append(T, T[1])

\* lines 288-343: the passes left to do on current_points
RECURSIVE ChaikinLoop(_, _, _)
ChaikinLoop(current_points, denom, left) ==
    IF left <= 0 \/ Len(current_points) < 4 \/ ChaikinPass(current_points) = <<>>
    THEN [points |-> current_points, denom |-> denom]
    ELSE ChaikinLoop(CloseRing(ChaikinPass(current_points)), 4 * denom, left - 1)

apply_chaikin_to_ring(points, iterations) ==
    IF Len(points) < 4 THEN [points |-> points, denom |-> 1]
    ELSE ChaikinLoop(points, 1, iterations)


(***************************************************************************)
(* smooth_layer_chaikin, lines 367-479 for one geometry.  The ring         *)
(* arithmetic is _apply_chaikin_to_ring; here only what becomes of the     *)
(* feature's geometry: the smoothed multi-polygon when it is valid, the    *)
(* MakeValid result when that is valid, the original otherwise.            *)
(***************************************************************************)
SmoothGeom(geom, i, E) ==
    IF IsNullOrEmpty(geom) THEN NullGeom
    ELSE IF geom.kind \notin {"Polygon", "MultiPolygon"} THEN geom
    ELSE IF i \in FaultIdx(E, "smoothNone") \/ i \in FaultIdx(E, "smoothBad") THEN geom
    ELSE IF i \in FaultIdx(E, "smoothFixed")
    THEN [geom EXCEPT !.kind = "MultiPolygon", !.valid = TRUE, !.form = "smoothed_repaired"]
    ELSE IF i \in FaultIdx(E, "smoothFixedColl")
    THEN [geom EXCEPT !.kind = "GeometryCollection", !.valid = TRUE,
                      !.form = "smoothed_repaired"]
    ELSE [geom EXCEPT !.kind = "MultiPolygon", !.valid = TRUE, !.form = "smoothed"]

smooth_layer_chaikin(L, sch, iterations, E, raise) ==
    IF Len(L) = 0 THEN NoRewrite(L, TRUE)
    ELSE Rewrite(L, sch, [i \in 1..Len(L) |-> Item(SmoothGeom(L[i].geom, i, E), L[i])],
                 E, raise)

\* variant: the geometry of a feature with the wanted DN is not looked at
DnKeepAnyGeom(L, keep_dn_value, E) ==
    {i \in 1..Len(L) : /\ i \notin FaultIdx(E, "dnRaise")
                       /\ L[i].fields["DN"] = keep_dn_value}

\* lines 624-634: the features kept
DnKeep(L, keep_dn_value, E) ==
    {i \in 1..Len(L) : /\ i \notin FaultIdx(E, "dnRaise")
                       /\ L[i].fields["DN"] = keep_dn_value
                       /\ ~IsNullOrEmpty(L[i].geom)
                       /\ L[i].geom.valid}

\* variant: a layer without the DN field is left alone and reported as done
filter_layer_by_dn_unchecked(L, sch, keep_dn_value, E, raise) ==
    IF Len(L) = 0 THEN NoRewrite(L, TRUE)
    ELSE IF "DN" \notin sch THEN NoRewrite(L, TRUE)
    ELSE LET keepIdx == DnKeep(L, keep_dn_value, E)
             kept    == SelectIdx(L, keepIdx, 1)
         IN  IF Cardinality(keepIdx) = Len(L) /\ Len(L) > 0
             THEN NoRewrite(L, TRUE)
             ELSE Rewrite(L, sch, [k \in 1..Len(kept) |-> Item(kept[k].geom, kept[k])],
                          E, raise)

filter_layer_by_dn(L, sch, keep_dn_value, E, raise) ==
    IF Len(L) = 0 THEN NoRewrite(L, TRUE)
    ELSE IF "DN" \notin sch THEN NoRewrite(L, FALSE)
    ELSE LET keepIdx == DnKeep(L, keep_dn_value, E)
             kept    == SelectIdx(L, keepIdx, 1)
         IN  IF Cardinality(keepIdx) = Len(L) /\ Len(L) > 0
             THEN NoRewrite(L, TRUE)
             ELSE Rewrite(L, sch, [k \in 1..Len(kept) |-> Item(kept[k].geom, kept[k])],
                          E, raise)


(***************************************************************************)
(* run_processing(params, logger_queue).                                   *)
(***************************************************************************)
Classes == {"roads", "buildings"}

\* band 1 = roads, band 2 = buildings (lines 945, 955)
BandOf(c) == IF c = "roads" THEN 1 ELSE 2

\* band pixel grids of two rows and four columns
ZeroGrid == <<(<<0, 0, 0, 0>>), (<<0, 0, 0, 0>>)>>

\* at cutoff 102: a region of two cells meeting at a corner, and a region of one cell
MixedGrid == <<(<<101, 255, 0, 102>>), (<<255, 0, 0, 0>>)>>

RasterFile(crs, bands, grids) == [crs |-> crs, bands |-> bands, grids |-> grids]

\* sample input files: data in band 1 only, data in band 2 only; another CRS; no SRS;
\* one band
RasterFiles ==
    {RasterFile("EPSG:32633", 2, <<MixedGrid, ZeroGrid>>),
     RasterFile("EPSG:32633", 2, <<ZeroGrid, MixedGrid>>),
     RasterFile("EPSG:4326", 2, <<MixedGrid, ZeroGrid>>),
     RasterFile("none", 2, <<ZeroGrid, ZeroGrid>>),
     RasterFile("EPSG:32633", 1, <<MixedGrid>>)}

RasterLists == UNION {[1..n -> RasterFiles] : n \in 0..MaxRasters}

\* DEFAULT_CONFIDENCE_THRESHOLD_ROAD / _BUILDING
DefaultPct == 40

\* lines 746-751: the stage parameters of a class
StageParams(simplify, min_area, smooth) ==
    [simplify |-> simplify, min_area |-> min_area, smooth |-> smooth]

\* sample parameter sets: every stage of the roads on and the optional stages of the
\* buildings off; smoothing and area filter of the roads off and every stage of the
\* buildings on
ParamSamples ==
    {[c \in Classes |-> IF c = "roads" THEN StageParams(1, 2, 1) ELSE StageParams(0, 0, 0)],
     [c \in Classes |-> IF c = "roads" THEN StageParams(1, 0, 0) ELSE StageParams(1, 2, 0)]}

\* the thresholder and extraction call under test: nothing called yet
FnIdle ==
    [op |-> "none", pct |-> 0, cutoff |-> 0, pixel |-> 0, inMask |-> FALSE,
     grid |-> ZeroGrid, band |-> 1, env |-> NominalEnv, pre |-> <<>>, post |-> <<>>,
     ok |-> TRUE, raised |-> FALSE]

\* the stage call under test: nothing called yet
StIdle ==
    [op |-> "none", pre |-> <<>>, sch |-> {}, arg |-> 0, mv |-> <<>>, faults |-> {},
     raise |-> NoRaise, ok |-> TRUE, post |-> <<>>, rewrite |-> FALSE, tx |-> FALSE,
     items |-> <<>>]

\* the Chaikin call under test: nothing called yet
RingIdle == [op |-> "none", points |-> <<>>, iterations |-> 0, out |-> <<>>, denom |-> 1]

\* VectorizationApp.__init__: the run button is enabled, the queue is empty, no thread
AppIdle ==
    [button |-> "normal", workers |-> 0, queue |-> <<>>, dialog |-> "none", put |-> 0,
     shown |-> 0, runs |-> 0, sent |-> <<>>, got |-> <<>>]

Init ==
    /\ pc = "start"
    /\ force \in BOOLEAN
    /\ outFile \in {"absent", "old"}
    /\ rasters \in RasterLists
    /\ pct = [c \in Classes |-> DefaultPct]
    /\ ri = 0
    /\ openDs = {}
    /\ nOpen = 0
    /\ created = FALSE
    /\ layer = [c \in Classes |-> <<>>]
    /\ schema = [c \in Classes |-> {}]
    /\ allPolyOk = [c \in Classes |-> TRUE]
    /\ polyLog = [c \in Classes |-> <<>>]
    /\ cur = "none"
    /\ stOk = [c \in Classes |-> <<>>]
    /\ called = [c \in Classes |-> <<>>]
    /\ success = [c \in Classes |-> FALSE]
    /\ signals = <<>>
    /\ call = NoCall
    /\ faults = 0
    /\ par \in ParamSamples
    /\ critical = FALSE
    /\ fn = FnIdle
    /\ st = StIdle
    /\ ring = RingIdle
    /\ app = AppIdle
    /\ dnFaults = [c \in Classes |-> {}]
    /\ outFile0 = outFile

\* the run's inputs and the records of the unit specifications
givenVars == <<force, rasters, pct, par, fn, call, st, ring, app, outFile0>>

inputVars == <<givenVars, dnFaults>>

paramVars == <<inputVars, critical>>

layerVars == <<layer, schema, allPolyOk, polyLog, cur, stOk, called, success, faults>>

\* variant: the run returns without the terminal signal
ReturnFailureSilent ==
    /\ signals' = signals
    /\ pc' = "done"

\* logger_queue.put("PROCESS_COMPLETE_FAILURE"); return False
ReturnFailure ==
    /\ signals' = Append(signals, "PROCESS_COMPLETE_FAILURE")
    /\ pc' = "done"

\* lines 780-787: the output directory cannot be created
OutputDirFails ==
    /\ pc = "start"
    /\ outFile = "absent"
    /\ ReturnFailure
    /\ UNCHANGED <<paramVars, layerVars, outFile, ri, openDs, nOpen, created>>

\* variant: an existing output is kept and the run goes on without force_overwrite
OverwriteRefusedIgnored ==
    /\ pc = "start"
    /\ outFile = "old" /\ ~force
    /\ pc' = "validate"
    /\ UNCHANGED <<paramVars, layerVars, outFile, ri, openDs, nOpen, created, signals>>

\* lines 791, 815-818: the output exists and force_overwrite is off
OverwriteRefused ==
    /\ pc = "start"
    /\ outFile = "old" /\ ~force
    /\ ReturnFailure
    /\ UNCHANGED <<paramVars, layerVars, outFile, ri, openDs, nOpen, created>>

\* lines 791-814: the output exists and is removed, or cannot be removed
OverwriteDelete ==
    /\ pc = "start"
    /\ outFile = "old" /\ force
    /\ \E removed \in BOOLEAN :
          IF removed
          THEN outFile' = "absent" /\ pc' = "validate" /\ UNCHANGED signals
          ELSE outFile' = outFile /\ ReturnFailure
    /\ UNCHANGED <<paramVars, layerVars, ri, openDs, nOpen, created>>

\* line 791: nothing at the output path
OutputPathFree ==
    /\ pc = "start"
    /\ outFile = "absent"
    /\ pc' = "validate"
    /\ UNCHANGED <<paramVars, layerVars, outFile, ri, openDs, nOpen, created, signals>>


(***************************************************************************)
(* Validation of the input rasters, lines 820-882.  first_raster_ds_val    *)
(* stays open until the finally clause of line 882; current_ds_val is      *)
(* closed by the finally clause of line 872.                               *)
(***************************************************************************)
\* target_srs.IsSame(current_info_val['srs'])
IsSame(a, b) == a = b

\* lines 838-844, 858-862: a usable SRS and at least two bands
RasterInfoOk(r) == r.crs # "none" /\ r.bands >= 2

\* variant: the CRS comparison of lines 864-870 is missing
ValidateBandsOnly(first, r) == RasterInfoOk(r)

\* lines 857-870: the checks on a raster after the first
ValidateAgainstFirst(first, r) == RasterInfoOk(r) /\ IsSame(first.crs, r.crs)

\* lines 875-882: log, close the validation raster, signal failure, return
ValidationFails ==
    /\ openDs' = {}
    /\ ReturnFailure

\* lines 822-825
NoInputRasters ==
    /\ pc = "validate"
    /\ Len(rasters) = 0
    /\ ReturnFailure
    /\ UNCHANGED <<paramVars, layerVars, outFile, ri, openDs, nOpen, created>>

\* line 833: gdal.Open of the first raster
ValOpenFirst ==
    /\ pc = "validate"
    /\ Len(rasters) > 0
    /\ nOpen' = nOpen + 1
    /\ \E opened \in BOOLEAN :
          IF opened
          THEN /\ openDs' = openDs \cup {<<"validation", 1>>}
               /\ pc' = "val_first"
               /\ UNCHANGED signals
          ELSE ValidationFails
    /\ UNCHANGED <<paramVars, layerVars, outFile, ri, created>>

\* lines 837-845
ValCheckFirst ==
    /\ pc = "val_first"
    /\ IF RasterInfoOk(rasters[1])
       THEN /\ ri' = 2
            /\ pc' = "val_loop"
            /\ UNCHANGED <<openDs, signals>>
       ELSE ValidationFails /\ UNCHANGED ri
    /\ UNCHANGED <<paramVars, layerVars, outFile, nOpen, created>>

\* line 853: gdal.Open of raster ri
ValOpenNext ==
    /\ pc = "val_loop"
    /\ ri <= Len(rasters)
    /\ nOpen' = nOpen + 1
    /\ \E opened \in BOOLEAN :
          IF opened
          THEN /\ openDs' = openDs \cup {<<"validation", ri>>}
               /\ pc' = "val_next"
               /\ UNCHANGED signals
          ELSE ValidationFails
    /\ UNCHANGED <<paramVars, layerVars, outFile, ri, created>>

\* lines 857-872
ValCheckNext ==
    /\ pc = "val_next"
    /\ IF ValidateAgainstFirst(rasters[1], rasters[ri])
       THEN /\ openDs' = openDs \ {<<"validation", ri>>}
            /\ ri' = ri + 1
            /\ pc' = "val_loop"
            /\ UNCHANGED signals
       ELSE ValidationFails /\ UNCHANGED ri
    /\ UNCHANGED <<paramVars, layerVars, outFile, nOpen, created>>

\* lines 873, 881-882: every raster validated, the first one is closed
ValDone ==
    /\ pc = "val_loop"
    /\ ri > Len(rasters)
    /\ openDs' = {}
    /\ pc' = "create"
    /\ UNCHANGED <<paramVars, layerVars, outFile, ri, nOpen, created, signals>>

(***************************************************************************)
(* Creation of the output GeoPackage and of its two layers, lines 891-925. *)
(***************************************************************************)
\* lines 1012-1016: a critical error sets both classes failed and goes to the cleanup
CriticalError ==
    /\ critical' = TRUE
    /\ success' = [c \in Classes |-> FALSE]
    /\ pc' = "cleanup"

\* lines 894-897: no GPKG driver
NoDriver ==
    /\ pc = "create"
    /\ ReturnFailure
    /\ UNCHANGED <<paramVars, layerVars, outFile, ri, openDs, nOpen, created>>

\* lines 908-910: CreateDataSource fails
CreateDataSourceFails ==
    /\ pc = "create"
    /\ CriticalError
    /\ UNCHANGED <<inputVars, outFile, ri, openDs, nOpen, created, signals,
                   layer, schema, allPolyOk, polyLog, cur, stOk, called, faults>>

\* lines 908-925: the container exists; a layer cannot be created
CreateLayerFails ==
    /\ pc = "create"
    /\ created' = TRUE
    /\ outFile' = "new"
    /\ CriticalError
    /\ UNCHANGED <<inputVars, ri, openDs, nOpen, signals,
                   layer, schema, allPolyOk, polyLog, cur, stOk, called, faults>>

\* lines 908-929
CreateOutput ==
    /\ pc = "create"
    /\ created' = TRUE
    /\ outFile' = "new"
    /\ layer' = [c \in Classes |-> <<>>]
    /\ schema' = [c \in Classes |-> {"DN"}]
    /\ allPolyOk' = [c \in Classes |-> TRUE]
    /\ ri' = 1
    /\ pc' = "open"
    /\ UNCHANGED <<paramVars, openDs, nOpen, signals,
                   polyLog, cur, stOk, called, success, faults>>


(***************************************************************************)
(* The polygonization loop over the input rasters, lines 931-970.          *)
(***************************************************************************)
\* variant: a raster that cannot be opened for polygonization ends the run
OpenForExtractionAborts ==
    /\ pc = "open"
    /\ ri <= Len(rasters)
    /\ nOpen' = nOpen + 1
    /\ \E opened \in BOOLEAN :
          IF opened
          THEN /\ openDs' = openDs \cup {<<"processing", ri>>}
               /\ pc' = "poly_roads"
               /\ UNCHANGED <<allPolyOk, ri, faults, success, critical>>
          ELSE /\ faults < MaxFaults
               /\ faults' = faults + 1
               /\ allPolyOk' = [c \in Classes |-> FALSE]
               /\ CriticalError
               /\ UNCHANGED <<openDs, ri>>
    /\ UNCHANGED <<inputVars, outFile, created, signals,
                   layer, schema, polyLog, cur, stOk, called>>

\* line 931 / 935-940: gdal.Open of raster ri for polygonization
OpenForExtraction ==
    /\ pc = "open"
    /\ ri <= Len(rasters)
    /\ nOpen' = nOpen + 1
    /\ \E opened \in BOOLEAN :
          IF opened
          THEN /\ openDs' = openDs \cup {<<"processing", ri>>}
               /\ pc' = "poly_roads"
               /\ UNCHANGED <<allPolyOk, ri, faults>>
          ELSE /\ faults < MaxFaults
               /\ faults' = faults + 1
               /\ allPolyOk' = [c \in Classes |-> FALSE]
               /\ ri' = ri + 1
               /\ UNCHANGED <<openDs, pc>>
    /\ UNCHANGED <<paramVars, outFile, created, signals,
                   layer, schema, polyLog, cur, stOk, called, success>>

\* lines 943-960 (and 962-966 when the call raises): polygonize band BandOf(c) of raster ri
ExtractBand(c) ==
    /\ pc = (IF c = "roads" THEN "poly_roads" ELSE "poly_buildings")
    /\ \E e \in ExtractEnvs :
         LET res == initial_polygonize_band(rasters[ri], BandOf(c),
                                            threshold_255(pct[c]), layer[c], schema[c], ri, e)
         IN  /\ (e # NominalEnv => faults < MaxFaults)
             /\ faults' = faults + (IF e = NominalEnv THEN 0 ELSE 1)
             /\ layer' = [layer EXCEPT ![c] = res.layer]
             /\ polyLog' = [polyLog EXCEPT ![c] =
                               Append(@, [raster |-> ri, ok |-> res.ok, raised |-> res.raised,
                                          added |-> res.added])]
             /\ IF res.raised
                THEN /\ allPolyOk' = [k \in Classes |-> FALSE]
                     /\ pc' = "close"
                ELSE /\ allPolyOk' = [allPolyOk EXCEPT ![c] = @ /\ res.ok]
                     /\ pc' = (IF c = "roads" THEN "poly_buildings" ELSE "close")
    /\ UNCHANGED <<paramVars, outFile, created, signals, ri, openDs, nOpen,
                   schema, cur, stOk, called, success>>

\* lines 967-970: the raster of this iteration is closed
CloseRaster ==
    /\ pc = "close"
    /\ openDs' = openDs \ {<<"processing", ri>>}
    /\ ri' = ri + 1
    /\ pc' = "open"
    /\ UNCHANGED <<paramVars, layerVars, outFile, nOpen, created, signals>>

\* variant: post-processing starts after the first raster
ExtractionDoneEarly ==
    /\ pc = "open"
    /\ ri > 1
    /\ cur' = "roads"
    /\ pc' = "post"
    /\ UNCHANGED <<paramVars, outFile, created, signals, ri, openDs, nOpen,
                   layer, schema, allPolyOk, polyLog, stOk, called, success, faults>>

\* line 931: the loop is over
ExtractionDone ==
    /\ pc = "open"
    /\ ri > Len(rasters)
    /\ cur' = "roads"
    /\ pc' = "post"
    /\ UNCHANGED <<paramVars, outFile, created, signals, ri, openDs, nOpen,
                   layer, schema, allPolyOk, polyLog, stOk, called, success, faults>>


(***************************************************************************)
(* Global post-processing of the merged layer of class cur, lines 975-1010.*)
(* Each assignment simp_ok, area_ok, fix_geom_ok, smooth_ok, dn_ok is one  *)
(* step; stOk[cur] holds the values assigned so far, in that order (the    *)
(* buildings class has no smooth_ok).                                      *)
(***************************************************************************)
\* MakeValid answers met in a run: a valid multi-polygon, a valid polygon, a collection
\* holding a polygon, and an exception
RunMakeValidResults ==
    {MV("geom", "MultiPolygon", TRUE, <<>>, FALSE),
     MV("geom", "Polygon", TRUE, <<>>, FALSE),
     MV("geom", "GeometryCollection", TRUE,
        <<Part("Polygon", TRUE, 1), Part("LineString", TRUE, 0)>>, TRUE),
     MV("raise", "none", FALSE, <<>>, FALSE)}

\* the faults the DN filter of a class may meet, whatever the run has met before
DnFaultSets(n) ==
    FaultSets({"dnRaise", "delStatus", "setGeom", "create", "setField"} \X (1..Min2(n, 1)),
              MaxFaults)

\* the faults a stage call may meet: at most the budget left, of the kinds it can meet
StageFaultSets(kinds, n) ==
    FaultSets((kinds \cup {"delStatus", "setGeom", "create", "setField"}) \X (1..Min2(n, 1)),
              MaxFaults - faults)

\* which call raises matters, not at which feature: the first one stands for all
StageRaises == {NoRaise, <<"delRaise", 1>>, <<"addRaise", 1>>, <<"commitRaise", 0>>}

\* variant: the area filter runs whatever simplify_layer returned
AreaGateAlways(ok) == TRUE

\* the conditions of lines 979, 980, 983 and 987
AreaGate(ok) == ok[1]

FixGate(ok) == ok[1] /\ ok[2]

SmoothGate(ok) == ok[1] /\ ok[2] /\ ok[3]

DnGate(ok) == \A i \in 1..Len(ok) : ok[i]

\* success_roads = simp_ok_r and area_ok_r and fix_geom_ok_r and smooth_ok_r and dn_ok_final_r
AllOk(ok) == \A i \in 1..Len(ok) : ok[i]

\* after the last statement of a class: the buildings block, then the cleanup
AfterClass(c) == IF c = "roads" THEN "post" ELSE "cleanup"

OtherClass(c) == IF c = "roads" THEN "buildings" ELSE c

\* a stage function was called and returned res
StageCalled(name, res, E, raise) ==
    /\ (~res.rewrite => E = {} /\ raise = NoRaise)
    /\ (raise # NoRaise => E = {} /\ faults < MaxFaults)
    /\ layer' = [layer EXCEPT ![cur] = res.layer]
    /\ stOk' = [stOk EXCEPT ![cur] = Append(@, res.ok)]
    /\ called' = [called EXCEPT ![cur] = Append(@, name)]
    /\ faults' = faults + Cardinality(E) + (IF raise = NoRaise THEN 0 ELSE 1)

\* the stage is not called: its flag is False
StageNotCalled ==
    /\ stOk' = [stOk EXCEPT ![cur] = Append(@, FALSE)]
    /\ UNCHANGED <<layer, called, faults>>

runVars == <<paramVars, outFile, created, signals, ri, openDs, nOpen, schema, allPolyOk, polyLog>>

\* lines 975, 992-994: polygonization failed for some raster
PostSkipFailed ==
    /\ pc = "post"
    /\ ~allPolyOk[cur]
    /\ success' = [success EXCEPT ![cur] = FALSE]
    /\ pc' = AfterClass(cur)
    /\ cur' = OtherClass(cur)
    /\ UNCHANGED <<runVars, layer, stOk, called, faults>>

\* variant: an empty merged layer counts as a failure of the class
PostSkipEmptyFails ==
    /\ pc = "post"
    /\ allPolyOk[cur]
    /\ Len(layer[cur]) = 0
    /\ success' = [success EXCEPT ![cur] = FALSE]
    /\ pc' = AfterClass(cur)
    /\ cur' = OtherClass(cur)
    /\ UNCHANGED <<runVars, layer, stOk, called, faults>>

\* lines 976, 989-991: the merged layer is empty
PostSkipEmpty ==
    /\ pc = "post"
    /\ allPolyOk[cur]
    /\ Len(layer[cur]) = 0
    /\ success' = [success EXCEPT ![cur] = TRUE]
    /\ pc' = AfterClass(cur)
    /\ cur' = OtherClass(cur)
    /\ UNCHANGED <<runVars, layer, stOk, called, faults>>

\* lines 975-977
PostStart ==
    /\ pc = "post"
    /\ allPolyOk[cur]
    /\ Len(layer[cur]) > 0
    /\ pc' = "simplify"
    /\ UNCHANGED <<runVars, layer, stOk, called, faults, success, cur>>

\* line 978 / 1000
SimplifyStep ==
    /\ pc = "simplify"
    /\ \E raise \in StageRaises,
          E \in StageFaultSets({"simpRaise", "simpEmpty"}, Len(layer[cur])) :
          StageCalled("simplify",
                      simplify_layer(layer[cur], schema[cur], par[cur].simplify, E, raise),
                      E, raise)
    /\ pc' = "area"
    /\ UNCHANGED <<runVars, success, cur>>

\* line 979 / 1001
AreaStep ==
    /\ pc = "area"
    /\ IF AreaGate(stOk[cur])
       THEN \E raise \in StageRaises,
               E \in StageFaultSets({"areaRaise"}, Len(layer[cur])) :
               StageCalled("area",
                           filter_layer_by_min_area(layer[cur], schema[cur],
                                                    par[cur].min_area, E, raise),
                           E, raise)
       ELSE StageNotCalled
    /\ pc' = "fix"
    /\ UNCHANGED <<runVars, success, cur>>

\* line 980 / 1002
FixStep ==
    /\ pc = "fix"
    /\ IF FixGate(stOk[cur])
       THEN \E mv \in MakeValidChoices(layer[cur], RunMakeValidResults), raise \in StageRaises,
               E \in StageFaultSets({}, Len(layer[cur])) :
               StageCalled("fix",
                           fix_layer_geometries(layer[cur], schema[cur], mv, E, raise),
                           E, raise)
       ELSE StageNotCalled
    /\ pc' = (IF cur = "roads" THEN "smooth" ELSE "dn")
    /\ UNCHANGED <<runVars, success, cur>>

\* variant: the smoothing is called whatever the iteration count
SmoothStepAlways ==
    /\ pc = "smooth"
    /\ LET iterations == par[cur].smooth IN
          IF SmoothGate(stOk[cur])
          THEN \E raise \in StageRaises,
                  E \in StageFaultSets({"smoothNone", "smoothBad", "smoothFixed",
                                        "smoothFixedColl"}, Len(layer[cur])) :
                  StageCalled("smooth",
                              smooth_layer_chaikin(layer[cur], schema[cur], iterations,
                                                   E, raise),
                              E, raise)
          ELSE StageNotCalled
    /\ pc' = "dn"
    /\ UNCHANGED <<runVars, success, cur>>

\* lines 981-986 (roads only)
SmoothStep ==
    /\ pc = "smooth"
    /\ LET iterations == par[cur].smooth IN
          IF iterations > 0
          THEN IF SmoothGate(stOk[cur])
               THEN \E raise \in StageRaises,
                       E \in StageFaultSets({"smoothNone", "smoothBad", "smoothFixed",
                                             "smoothFixedColl"}, Len(layer[cur])) :
                       StageCalled("smooth",
                                   smooth_layer_chaikin(layer[cur], schema[cur], iterations,
                                                        E, raise),
                                   E, raise)
               ELSE StageNotCalled
          ELSE /\ stOk' = [stOk EXCEPT ![cur] = Append(@, TRUE)]
               /\ UNCHANGED <<layer, called, faults>>
    /\ pc' = "dn"
    /\ UNCHANGED <<runVars, success, cur>>

\* variant: the DN filter is not called and counts as done
DnStepSkipped ==
    /\ pc = "dn"
    /\ stOk' = [stOk EXCEPT ![cur] = Append(@, DnGate(stOk[cur]))]
    /\ success' = [success EXCEPT ![cur] = AllOk(stOk'[cur])]
    /\ pc' = AfterClass(cur)
    /\ cur' = OtherClass(cur)
    /\ UNCHANGED <<givenVars, critical, outFile, created, signals, ri, openDs, nOpen, schema,
                   allPolyOk, polyLog, layer, called, faults, dnFaults>>

\* lines 987-988 / 1003-1004
DnStep ==
    /\ pc = "dn"
    /\ IF DnGate(stOk[cur])
       THEN \E raise \in StageRaises, E \in DnFaultSets(Len(layer[cur])) :
               /\ StageCalled("dn", filter_layer_by_dn(layer[cur], schema[cur], 1, E, raise),
                              E, raise)
               /\ dnFaults' = [dnFaults EXCEPT ![cur] = E]
       ELSE StageNotCalled /\ UNCHANGED dnFaults
    /\ success' = [success EXCEPT ![cur] = AllOk(stOk'[cur])]
    /\ pc' = AfterClass(cur)
    /\ cur' = OtherClass(cur)
    /\ UNCHANGED <<givenVars, critical, outFile, created, signals, ri, openDs, nOpen, schema,
                   allPolyOk, polyLog>>

\* lines 1012-1016: an exception leaves a stage function
StageCriticalError ==
    /\ pc \in {"post", "simplify", "area", "fix", "smooth", "dn"}
    /\ faults < MaxFaults
    /\ faults' = faults + 1
    /\ CriticalError
    /\ UNCHANGED <<inputVars, outFile, created, signals, ri, openDs, nOpen, schema, allPolyOk,
                   polyLog, layer, stOk, called, cur>>

\* lines 1017-1059: the finally clause, the summary and the terminal signal
Summary ==
    /\ pc = "cleanup"
    /\ signals' = Append(signals, IF success["roads"] /\ success["buildings"]
                                  THEN "PROCESS_COMPLETE_SUCCESS"
                                  ELSE "PROCESS_COMPLETE_FAILURE")
    /\ pc' = "done"
    /\ UNCHANGED <<paramVars, layerVars, outFile, created, ri, openDs, nOpen>>

Next ==
    \/ OutputDirFails
    \/ OverwriteRefused
    \/ OverwriteDelete
    \/ OutputPathFree
    \/ NoInputRasters
    \/ ValOpenFirst
    \/ ValCheckFirst
    \/ ValOpenNext
    \/ ValCheckNext
    \/ ValDone
    \/ NoDriver
    \/ CreateDataSourceFails
    \/ CreateLayerFails
    \/ CreateOutput
    \/ OpenForExtraction
    \/ \E c \in Classes : ExtractBand(c)
    \/ CloseRaster
    \/ ExtractionDone
    \/ PostSkipFailed
    \/ PostSkipEmpty
    \/ PostStart
    \/ SimplifyStep
    \/ AreaStep
    \/ FixStep
    \/ SmoothStep
    \/ DnStep
    \/ StageCriticalError
    \/ Summary

Spec == Init /\ [][Next]_vars

\* the worker thread runs run_processing to its end: every call it makes returns or
\* raises, and the thread is not starved
SpecLive == Spec /\ WF_vars(Next)


(***************************************************************************)
(* Unit specifications: one call of a function from any of a set of sample *)
(* inputs, the pipeline standing still.                                    *)
(***************************************************************************)
InitUnit ==
    /\ pc = "unit"
    /\ force = FALSE
    /\ outFile = "absent"
    /\ rasters = <<>>
    /\ pct = [c \in Classes |-> DefaultPct]
    /\ ri = 0
    /\ openDs = {}
    /\ nOpen = 0
    /\ created = FALSE
    /\ layer = [c \in Classes |-> <<>>]
    /\ schema = [c \in Classes |-> {}]
    /\ allPolyOk = [c \in Classes |-> TRUE]
    /\ polyLog = [c \in Classes |-> <<>>]
    /\ cur = "none"
    /\ stOk = [c \in Classes |-> <<>>]
    /\ called = [c \in Classes |-> <<>>]
    /\ success = [c \in Classes |-> FALSE]
    /\ signals = <<>>
    /\ call = NoCall
    /\ faults = 0
    /\ par = [c \in Classes |-> StageParams(0, 0, 0)]
    /\ critical = FALSE
    /\ fn = FnIdle
    /\ st = StIdle
    /\ ring = RingIdle
    /\ app = AppIdle
    /\ dnFaults = [c \in Classes |-> {}]
    /\ outFile0 = outFile

pipelineVars == <<pc, force, outFile, rasters, pct, ri, openDs, nOpen, created, layer, schema,
                  allPolyOk, polyLog, cur, stOk, called, success, signals, faults, par,
                  critical, dnFaults, outFile0>>

\* the schema of a class layer: the DN field of lines 917-925
UnitSchema == {"DN"}

Feature(geom, dn) == [geom |-> geom, fields |-> [n \in UnitSchema |-> dn]]

\* sample features of the layer before the call: a valid and an invalid polygon
FeatureSamples == {Feature(Poly(<<1, 1>>, 2, TRUE), 1), Feature(Poly(<<1, 3>>, 1, FALSE), 1)}

\* sample items: two polygons with their DN, a null geometry, an empty geometry
ItemSamples ==
    {[geom |-> Poly(<<2, 1>>, 3, TRUE), attributes |-> [n \in {"DN"} |-> 1]],
     [geom |-> Poly(<<2, 4>>, 1, TRUE), attributes |-> [n \in {"DN"} |-> 1]],
     [geom |-> NullGeom, attributes |-> [n \in {"DN"} |-> 1]],
     [geom |-> EmptyGeom, attributes |-> [n \in {"DN"} |-> 1]]}

SeqsUpTo(S, n) == UNION {[1..k -> S] : k \in 0..n}

\* clear_and_repopulate_layer(layer, features_data, ...) on a layer holding L
RewriteCall ==
    /\ call = NoCall
    /\ \E L \in SeqsUpTo(FeatureSamples, MaxItems), items \in SeqsUpTo(ItemSamples, MaxItems) :
       \E raise \in RaiseFaults(Len(L), Len(items)) :
       \E F \in FaultSets(StatusFaults(Len(L), Len(items)),
                          IF raise = NoRaise THEN MaxFaults ELSE MaxFaults - 1) :
          /\ (Len(L) = 0 /\ Len(items) = 0 => raise = NoRaise)
          /\ call' = CallRecord("unit", L, items, F, raise,
                                clear_and_repopulate_layer(L, UnitSchema, items, F, raise))
    /\ UNCHANGED <<pipelineVars, fn, st, ring, app>>

\* the next call starts from scratch
RewriteReturn ==
    /\ call # NoCall
    /\ call' = NoCall
    /\ UNCHANGED <<pipelineVars, fn, st, ring, app>>

NextLayer == RewriteCall \/ RewriteReturn

SpecLayer == InitUnit /\ [][NextLayer]_vars

\* confidence percentages: the range the form accepts and one value on each side of it
PctSamples == (0 - 1)..101

PixelSamples == 0..255

\* band grids: all zero; the mixed grid; a grid whose highest value is 101
GridSamples == {ZeroGrid, MixedGrid, <<(<<101, 0, 50, 0>>), (<<0, 0, 0, 101>>)>>}

\* lines 753-754: the percentage becomes a cutoff
CutoffCall ==
    /\ fn = FnIdle
    /\ \E p \in PctSamples :
          fn' = [FnIdle EXCEPT !.op = "cutoff", !.pct = p, !.cutoff = threshold_255(p)]
    /\ UNCHANGED <<pipelineVars, call, st, ring, app>>

\* line 677 for one pixel
MaskCall ==
    /\ fn.op = "cutoff"
    /\ \E pixel \in PixelSamples :
          fn' = [fn EXCEPT !.op = "mask", !.pixel = pixel,
                           !.inMask = (MaskCell(pixel, fn.cutoff) = 1)]
    /\ UNCHANGED <<pipelineVars, call, st, ring, app>>

\* initial_polygonize_band on band b of a raster of two bands, into a layer holding L
BandCall ==
    /\ fn.op = "cutoff"
    /\ \E grid \in GridSamples, b \in 1..3, e \in ExtractEnvs,
          L \in SeqsUpTo(FeatureSamples, 1) :
          LET res == initial_polygonize_band(RasterFile("EPSG:32633", 2, <<grid, grid>>), b,
                                             fn.cutoff, L, UnitSchema, 1, e)
          IN  fn' = [fn EXCEPT !.op = "band", !.grid = grid, !.band = b, !.env = e,
                               !.pre = L, !.post = res.layer, !.ok = res.ok,
                               !.raised = res.raised]
    /\ UNCHANGED <<pipelineVars, call, st, ring, app>>

FnReturn ==
    /\ fn.op \in {"mask", "band"}
    /\ fn' = FnIdle
    /\ UNCHANGED <<pipelineVars, call, st, ring, app>>

NextThreshold == CutoffCall \/ MaskCall \/ BandCall \/ FnReturn

SpecThreshold == InitUnit /\ [][NextThreshold]_vars


(***************************************************************************)
(* Unit specification of the stage functions: one call of a stage on a     *)
(* sample layer, with the engine faults of that call.                      *)
(***************************************************************************)
FeatureOf(geom, dn, sch) == [geom |-> geom, fields |-> [n \in sch |-> dn]]

\* sample features: areas 25 and 10 around the sample minimum area of 20, an invalid
\* polygon, a null and an empty geometry, and a polygon whose DN is 0
StageFeatureSamples(sch) ==
    {FeatureOf(Poly(<<1, 1>>, 25, TRUE), 1, sch),
     FeatureOf(Poly(<<1, 2>>, 10, TRUE), 1, sch),
     FeatureOf(Poly(<<1, 3>>, 25, FALSE), 1, sch),
     FeatureOf(NullGeom, 1, sch),
     FeatureOf(EmptyGeom, 1, sch),
     FeatureOf(Poly(<<1, 4>>, 25, TRUE), 0, sch)}

StageLayers(sch) == SeqsUpTo(StageFeatureSamples(sch), MaxItems)

\* the faults of a stage call under test: at most MaxFaults, the raise included
UnitFaultSets(kinds, n, raise) ==
    FaultSets(((kinds \cup {"setGeom", "create", "setField"}) \X (1..n))
                  \cup ({"delStatus"} \X (1..n)),
              IF raise = NoRaise THEN MaxFaults ELSE MaxFaults - 1)

\* the record of the call: arguments, faults, and what the stage returned and left
StageRecord(op, L, sch, arg, mv, E, raise, res) ==
    [op |-> op, pre |-> L, sch |-> sch, arg |-> arg, mv |-> mv, faults |-> E,
     raise |-> raise, ok |-> res.ok, post |-> res.layer, rewrite |-> res.rewrite,
     tx |-> res.tx, items |-> res.items]

\* a stage that returns before the rewrite meets none of its faults
StageRuns(res, E, raise) == ~res.rewrite => (E = {} /\ raise = NoRaise)

\* simplify_layer(layer, tolerance, ...)
SimplifyCall ==
    /\ st = StIdle
    /\ \E L \in StageLayers(UnitSchema), tolerance \in {0, 1}, raise \in StageRaises :
       \E E \in UnitFaultSets({"simpRaise", "simpEmpty"}, Len(L), raise) :
          LET res == simplify_layer(L, UnitSchema, tolerance, E, raise) IN
          /\ StageRuns(res, E, raise)
          /\ st' = StageRecord("simplify", L, UnitSchema, tolerance, <<>>, E, raise, res)
    /\ UNCHANGED <<pipelineVars, fn, call, ring, app>>

\* filter_layer_by_min_area(layer, min_area, ...)
AreaCall ==
    /\ st = StIdle
    /\ \E L \in StageLayers(UnitSchema), min_area \in {0, 20, 25}, raise \in StageRaises :
       \E E \in UnitFaultSets({"areaRaise"}, Len(L), raise) :
          LET res == filter_layer_by_min_area(L, UnitSchema, min_area, E, raise) IN
          /\ StageRuns(res, E, raise)
          /\ st' = StageRecord("area", L, UnitSchema, min_area, <<>>, E, raise, res)
    /\ UNCHANGED <<pipelineVars, fn, call, ring, app>>

\* fix_layer_geometries(layer, ...)
FixCall ==
    /\ st = StIdle
    /\ \E L \in StageLayers(UnitSchema), raise \in StageRaises :
       \E mv \in MakeValidChoices(L, MakeValidResults),
          E \in UnitFaultSets({}, Len(L), raise) :
          LET res == fix_layer_geometries(L, UnitSchema, mv, E, raise) IN
          /\ StageRuns(res, E, raise)
          /\ st' = StageRecord("fix", L, UnitSchema, 0, mv, E, raise, res)
    /\ UNCHANGED <<pipelineVars, fn, call, ring, app>>

\* smooth_layer_chaikin(layer, iterations, ...)
SmoothCall ==
    /\ st = StIdle
    /\ \E L \in StageLayers(UnitSchema), raise \in StageRaises :
       \E E \in UnitFaultSets({"smoothNone", "smoothBad", "smoothFixed", "smoothFixedColl"},
                              Len(L), raise) :
          LET res == smooth_layer_chaikin(L, UnitSchema, 1, E, raise) IN
          /\ StageRuns(res, E, raise)
          /\ st' = StageRecord("smooth", L, UnitSchema, 1, <<>>, E, raise, res)
    /\ UNCHANGED <<pipelineVars, fn, call, ring, app>>

\* filter_layer_by_dn(layer, 1, ...) on a layer with or without the DN field
DnCall ==
    /\ st = StIdle
    /\ \E sch \in {UnitSchema, {}}, raise \in StageRaises :
       \E L \in StageLayers(sch) :
       \E E \in UnitFaultSets({"dnRaise"}, Len(L), raise) :
          LET res == filter_layer_by_dn(L, sch, 1, E, raise) IN
          /\ StageRuns(res, E, raise)
          /\ st' = StageRecord("dn", L, sch, 1, <<>>, E, raise, res)
    /\ UNCHANGED <<pipelineVars, fn, call, ring, app>>

\* the next call starts from scratch
StageReturn ==
    /\ st # StIdle
    /\ st' = StIdle
    /\ UNCHANGED <<pipelineVars, fn, call, ring, app>>

NextStage == SimplifyCall \/ AreaCall \/ FixCall \/ SmoothCall \/ DnCall \/ StageReturn

SpecStage == InitUnit /\ [][NextStage]_vars


(***************************************************************************)
(* Unit specification of _apply_chaikin_to_ring: one call on a sequence of *)
(* corners of the unit square, closed or not.                              *)
(***************************************************************************)
RingPoints == {<<0, 0>>, <<1, 0>>, <<1, 1>>, <<0, 1>>}

ChaikinCall ==
    /\ ring = RingIdle
    /\ \E points \in SeqsUpTo(RingPoints, MaxRingLen), iterations \in 0..MaxIterations :
          LET res == apply_chaikin_to_ring(points, iterations) IN
          ring' = [op |-> "call", points |-> points, iterations |-> iterations,
                   out |-> res.points, denom |-> res.denom]
    /\ UNCHANGED <<pipelineVars, fn, call, st, app>>

ChaikinReturn ==
    /\ ring # RingIdle
    /\ ring' = RingIdle
    /\ UNCHANGED <<pipelineVars, fn, call, st, app>>

NextRing == ChaikinCall \/ ChaikinReturn

SpecRing == InitUnit /\ [][NextRing]_vars


(***************************************************************************)
(* VectorizationApp: the run button, the worker threads and the log queue. *)
(* A worker thread is run_processing seen from the queue: it puts log      *)
(* messages, and it ends by putting one terminal signal and returning, or  *)
(* on an exception that no handler of run_processing catches.  app.shown   *)
(* is the number of lines in the log widget, app.dialog the last message   *)
(* box shown, app.runs the number of threads started so far.  app.sent is  *)
(* what the workers have put on the queue and app.got what the timer       *)
(* callback has taken off it, both in order.                               *)
(***************************************************************************)
TerminalSignals == {"PROCESS_COMPLETE_SUCCESS", "PROCESS_COMPLETE_FAILURE"}

\* line 1094: queue.Queue() has maxsize 0, no upper limit
QueueMaxSize == 0

\* Queue.put blocks while the queue is full
QueueFull(q) == QueueMaxSize > 0 /\ Len(q) >= QueueMaxSize

\* variant: the queue hands out the newest message first
QueuePutFront(q, msg) == <<msg>> \o q

\* logger_queue.put(msg) / log_queue.get_nowait(): first in, first out
QueuePut(q, msg) == Append(q, msg)

\* str(message) of the k-th log message of run r
LogText(r, k) == "log " \o ToString(r) \o "." \o ToString(k)

\* variant: the run button is left enabled when the thread is started
start_processing_enabled ==
    /\ app.button = "normal"
    /\ app.runs < MaxRuns
    /\ \E valid \in BOOLEAN :
          IF valid
          THEN app' = [app EXCEPT !.shown = 1, !.workers = @ + 1, !.put = 0,
                                  !.dialog = "none", !.runs = @ + 1]
          ELSE app' = [app EXCEPT !.dialog = "input_error"]
    /\ UNCHANGED <<pipelineVars, fn, call, st, ring>>

\* lines 1283-1312: the command of the run button, which Tk invokes only while the
\* button is enabled; validate_inputs may refuse
start_processing ==
    /\ app.button = "normal"
    /\ app.runs < MaxRuns
    /\ \E valid \in BOOLEAN :
          IF valid
          THEN app' = [app EXCEPT !.shown = 1, !.button = "disabled", !.workers = @ + 1,
                                  !.put = 0, !.dialog = "none", !.runs = @ + 1]
          ELSE app' = [app EXCEPT !.dialog = "input_error"]
    /\ UNCHANGED <<pipelineVars, fn, call, st, ring>>

\* log_message(logger_queue, ...) in the worker thread
WorkerLogs ==
    /\ app.workers > 0
    /\ app.put < MaxLogs
    /\ ~QueueFull(app.queue)
    /\ LET msg == LogText(app.runs, app.put + 1) IN
          app' = [app EXCEPT !.queue = QueuePut(@, msg), !.put = @ + 1,
                             !.sent = Append(@, msg)]
    /\ UNCHANGED <<pipelineVars, fn, call, st, ring>>

\* logger_queue.put(<terminal signal>) followed by return: the end of run_processing
WorkerReturns ==
    /\ app.workers > 0
    /\ ~QueueFull(app.queue)
    /\ \E sig \in TerminalSignals :
          app' = [app EXCEPT !.queue = QueuePut(@, sig), !.workers = @ - 1,
                             !.sent = Append(@, sig)]
    /\ UNCHANGED <<pipelineVars, fn, call, st, ring>>

\* an exception outside the try blocks of run_processing ends the thread: no signal
WorkerRaises ==
    /\ app.workers > 0
    /\ app' = [app EXCEPT !.workers = @ - 1]
    /\ UNCHANGED <<pipelineVars, fn, call, st, ring>>

\* lines 1216-1233: the timer callback drains the queue; a terminal signal enables the
\* run button and shows a message box, anything else is a line of the log widget
process_log_queue ==
    /\ LET q    == app.queue
           term == {i \in 1..Len(q) : q[i] \in TerminalSignals}
           last == CHOOSE i \in term : \A j \in term : j <= i
       IN  app' = [app EXCEPT !.queue = <<>>,
                              !.got = @ \o q,
                              !.shown = @ + Len(q),
                              !.button = IF term # {} THEN "normal" ELSE @,
                              !.dialog = IF term # {} THEN q[last] ELSE @]
    /\ UNCHANGED <<pipelineVars, fn, call, st, ring>>

NextApp ==
    \/ start_processing
    \/ WorkerLogs
    \/ WorkerReturns
    \/ WorkerRaises
    \/ process_log_queue

SpecApp == InitUnit /\ [][NextApp]_vars


(***************************************************************************)
(* Properties of clear_and_repopulate_layer, under SpecLayer.              *)
(***************************************************************************)
\* C1: when deleting the old features, adding the new ones or the commit raises, the
\* call rolls the transaction back and returns failure, and the layer holds exactly
\* the features it held before the call.
C1_RollbackRestores ==
    (call.who # "none" /\ call.raise # NoRaise)
        => (~call.ok /\ call.tx /\ call.post = call.pre)

\* the second add raises after the old features were deleted and one item was added
C1_Witness ==
    /\ call.raise = <<"addRaise", 2>>
    /\ Len(call.pre) = 2
    /\ call.deleted = 2 /\ call.added = 1
    /\ ~call.ok
    /\ call.post = call.pre

\* the items a feature is made of: a geometry that is neither null nor empty, and no
\* error status from SetGeometry or CreateFeature
C2_Accepted ==
    {j \in 1..Len(call.items) :
        /\ call.items[j].geom.kind \notin {"null", "empty"}
        /\ <<"setGeom", j>> \notin call.faults
        /\ <<"create", j>> \notin call.faults}

\* the pre-call features whose DeleteFeature reported an error status
C2_Undeleted == {i \in 1..Len(call.pre) : <<"delStatus", i>> \in call.faults}

\* C2 as stated: after a successful call the layer holds exactly the items passed and
\* none of the pre-call features, so its count is the number of items passed, also
\* when a delete or an add reports an error status or an item has a null geometry.
C2_Original ==
    (call.who # "none" /\ call.ok)
        => /\ Len(call.post) = Len(call.items)
           /\ \A j \in 1..Len(call.items) : call.post[j].geom = call.items[j].geom

\* C2, amended: after a successful call the layer holds, in order, the pre-call
\* features whose delete reported an error status, then one feature for each item
\* with a non-null, non-empty geometry whose adds reported no error status; when
\* there is no such status and no such item, it holds exactly the items passed and
\* its count is the number of items passed.
C2_HoldsAcceptedItems ==
    (call.who # "none" /\ call.ok)
        => LET stay == SelectIdx(call.pre, C2_Undeleted, 1)
               news == SelectIdx(call.items, C2_Accepted, 1)
           IN  /\ Len(call.post) = Len(stay) + Len(news)
               /\ \A k \in 1..Len(stay) : call.post[k] = stay[k]
               /\ \A k \in 1..Len(news) : call.post[Len(stay) + k].geom = news[k].geom
               /\ (stay = <<>> /\ Len(news) = Len(call.items))
                     => /\ Len(call.post) = Len(call.items)
                        /\ \A j \in 1..Len(call.items) :
                              call.post[j].geom = call.items[j].geom

\* a successful call that kept an old feature and skipped a null geometry
C2_Witness ==
    /\ call.who # "none" /\ call.ok /\ call.tx
    /\ call.faults = {<<"delStatus", 1>>}
    /\ Len(call.pre) = 2
    /\ Len(call.items) = 2
    /\ call.items[1].geom.kind = "null"
    /\ call.items[2].geom.kind = "Polygon"
    /\ Len(call.post) = 2


(***************************************************************************)
(* Properties of run_processing, under Spec.                               *)
(***************************************************************************)
\* the stage functions of a class in the order of lines 978-988 / 1000-1004
StageOrder(c) ==
    IF c = "roads" THEN <<"simplify", "area", "fix", "smooth", "dn">>
    ELSE <<"simplify", "area", "fix", "dn">>

StagePos(c, name) == CHOOSE i \in 1..Len(StageOrder(c)) : StageOrder(c)[i] = name

\* the post-processing block of class c is behind
ClassEnded(c) ==
    /\ cur # "none"
    /\ \/ pc \in {"cleanup", "done"}
       \/ c = "roads" /\ cur = "buildings"

\* C3: the stages of a class are called in the fixed order simplify, area filter,
\* repair, [smooth], DN filter; a stage is called only when every stage before it
\* returned success; after a failure no later stage is called and the class ends
\* failed.
C3_StageOrderAndGating ==
    \A c \in Classes :
        /\ \A i, j \in 1..Len(called[c]) :
              i < j => StagePos(c, called[c][i]) < StagePos(c, called[c][j])
        /\ \A i \in 1..Len(called[c]) :
              \A k \in 1..(StagePos(c, called[c][i]) - 1) : stOk[c][k]
        /\ \A k \in 1..Len(stOk[c]) :
              ~stOk[c][k]
                 => /\ \A i \in 1..Len(called[c]) : StagePos(c, called[c][i]) <= k
                    /\ ClassEnded(c) => ~success[c]

\* the area filter of the roads returned failure: nothing else was called
C3_Witness ==
    /\ pc = "done"
    /\ called["roads"] = <<"simplify", "area">>
    /\ stOk["roads"] = <<TRUE, FALSE, FALSE, FALSE, FALSE>>
    /\ ~success["roads"]

\* C4 as stated: a class whose layer is empty after extraction, or after a stage,
\* reports success, never failure.
C4_Original ==
    \A c \in Classes : (ClassEnded(c) /\ layer[c] = <<>>) => success[c]

\* C4, amended: once the extraction loop is over an empty class layer stays empty
\* through every remaining stage, and the class reports success with 0 features
\* provided the extraction of that class succeeded for every raster and no exception
\* reached the handler of lines 1012-1016.
C4_EmptyLayerSucceeds ==
    [][\A c \in Classes :
          /\ (cur # "none" /\ layer[c] = <<>>) => layer'[c] = <<>>
          /\ (ClassEnded(c)' /\ layer'[c] = <<>> /\ allPolyOk'[c] /\ ~critical')
                => success'[c]]_vars

\* the roads layer was emptied by a stage and the class reported success
C4_Witness ==
    /\ pc = "done"
    /\ polyLog["roads"] # <<>> /\ polyLog["roads"][1].added = 2
    /\ Len(called["roads"]) = 5
    /\ layer["roads"] = <<>>
    /\ success["roads"]

\* C5: a stage of a class is called only once the loop over the rasters is over,
\* every raster having been opened for validation and for extraction, and no stage
\* is called twice for a class.
C5_StagesAfterExtraction ==
    \A c \in Classes :
        called[c] # <<>>
            => /\ cur # "none"
               /\ ri > Len(rasters)
               /\ nOpen = 2 * Len(rasters)
               /\ pc \notin {"open", "poly_roads", "poly_buildings", "close"}
               /\ \A i, j \in 1..Len(called[c]) : i < j => called[c][i] # called[c][j]

\* two rasters, and every stage of both classes was called
C5_Witness ==
    /\ pc = "done"
    /\ Len(rasters) = 2
    /\ called["roads"] = StageOrder("roads")
    /\ called["buildings"] = StageOrder("buildings")

RECURSIVE SumAdded(_)
SumAdded(log) == IF log = <<>> THEN 0 ELSE log[1].added + SumAdded(Tail(log))

\* what the calls recorded in log have appended: of each, the first added features of
\* those the band of that raster polygonizes to
RECURSIVE Extracted(_, _)
Extracted(c, log) ==
    IF log = <<>> THEN <<>>
    ELSE LET e     == log[Len(log)]
             feats == Polygonize(Mask(rasters[e.raster].grids[BandOf(c)],
                                      threshold_255(pct[c])), e.raster, schema[c])
         IN  Extracted(c, SubSeq(log, 1, Len(log) - 1)) \o SubSeq(feats, 1, e.added)

\* C6: until a stage of the class is called, the class layer is the concatenation,
\* in raster order, of what each extraction appended, unaltered, and its feature
\* count is the sum of the per-raster extraction counts.
C6_MergeAdditivity ==
    \A c \in Classes :
        called[c] = <<>>
            => /\ Len(layer[c]) = SumAdded(polyLog[c])
               /\ layer[c] = Extracted(c, polyLog[c])

\* both rasters have contributed two road features and post-processing is about to start
C6_Witness ==
    /\ pc = "post" /\ cur = "roads"
    /\ Len(rasters) = 2
    /\ Len(polyLog["roads"]) = 2
    /\ polyLog["roads"][1].added = 2 /\ polyLog["roads"][2].added = 2
    /\ Len(layer["roads"]) = 4

CrsMismatch == \E i \in 2..Len(rasters) : rasters[i].crs # rasters[1].crs

\* C7: when a raster after the first has another CRS than the first, the output
\* container is never created, no extraction or stage starts, and the run ends
\* with the failure signal.
C7_CrsMismatchAborts ==
    CrsMismatch
        => /\ ~created
           /\ outFile # "new"
           /\ cur = "none"
           /\ pc \in {"start", "validate", "val_first", "val_loop", "val_next", "done"}
           /\ pc = "done" => signals = <<"PROCESS_COMPLETE_FAILURE">>

\* the second raster was opened and found to be in another CRS
C7_Witness ==
    /\ pc = "done"
    /\ Len(rasters) = 2
    /\ rasters[1].crs = "EPSG:32633" /\ rasters[2].crs = "EPSG:4326"
    /\ nOpen = 2
    /\ ~created
    /\ signals = <<"PROCESS_COMPLETE_FAILURE">>

\* C8: when the output exists and force_overwrite is off, the run's next step puts
\* the failure signal and returns: no raster has been opened and the existing
\* output is still there.
C8_OverwriteRefused ==
    [][(~force /\ outFile = "old")
          => /\ outFile' = "old"
             /\ nOpen' = 0
             /\ ~created'
             /\ pc' = "done"
             /\ signals' = <<"PROCESS_COMPLETE_FAILURE">>]_vars

\* the run has ended on the refusal
C8_Witness ==
    /\ pc = "done"
    /\ ~force /\ outFile = "old"
    /\ nOpen = 0
    /\ Len(rasters) = 2
    /\ signals = <<"PROCESS_COMPLETE_FAILURE">>


(***************************************************************************)
(* Properties of the thresholder and of the extraction, under              *)
(* SpecThreshold.                                                          *)
(***************************************************************************)
\* C9 as stated: for a percentage in 0..100 the cutoff is the product
\* percent / 100 * 255 rounded and clamped to 0..255, and a pixel is in the mask
\* iff its value is at least the cutoff.
C9_Original ==
    (fn.op # "none" /\ fn.pct \in 0..100)
        => /\ fn.cutoff = Max2(0, Min2(255, RoundHalfUp(fn.pct * 255, 100)))
           /\ fn.op = "mask" => (fn.inMask <=> fn.pixel >= fn.cutoff)

\* C9, amended: for a percentage in 0..100 the cutoff is the integer part of
\* percent / 100 * 255, the largest integer not above it (102 for 40), within 0..255,
\* and a pixel is in the mask iff its value is at least the cutoff.
C9_CutoffTruncates ==
    (fn.op # "none" /\ fn.pct \in 0..100)
        => /\ fn.cutoff \in 0..255
           /\ fn.cutoff * 100 <= fn.pct * 255
           /\ fn.pct * 255 < (fn.cutoff + 1) * 100
           /\ fn.pct = 40 => fn.cutoff = 102
           /\ fn.op = "mask" => (fn.inMask <=> fn.pixel >= fn.cutoff)

\* 1 percent is 2.55: the cutoff is 2 and a pixel of value 2 is in the mask
C9_Witness ==
    /\ fn.op = "mask"
    /\ fn.pct = 1 /\ fn.cutoff = 2
    /\ fn.pixel = 2 /\ fn.inMask

\* C10: when the band is read and none of its pixels meets the cutoff, the
\* extraction returns success and the target layer holds the features it held,
\* whatever the engine would have done afterwards.
C10_NoPixelNoChange ==
    (/\ fn.op = "band"
     /\ fn.band \in 1..2
     /\ fn.env.read
     /\ \A r \in 1..2 : \A c \in 1..Len(fn.grid[r]) : fn.grid[r][c] < fn.cutoff)
        => (fn.ok /\ ~fn.raised /\ fn.post = fn.pre)

\* a band whose highest value is 101 at cutoff 102, into a layer holding a feature
C10_Witness ==
    /\ fn.op = "band"
    /\ fn.cutoff = 102
    /\ fn.grid[1][1] = 101
    /\ fn.env = ExtractEnv(TRUE, TRUE, "status", 1)
    /\ Len(fn.pre) = 1
    /\ fn.ok /\ fn.post = fn.pre


(***************************************************************************)
(* Properties of the stage functions, under SpecStage.                     *)
(***************************************************************************)
\* the geometry is there, is not empty and is valid
GeomValid(g) == ~IsNullOrEmpty(g) /\ g.valid

Geoms(L) == [i \in 1..Len(L) |-> L[i].geom]

\* no DeleteFeature of the call's rewrite reported an error status
NoDeleteStatus == FaultIdx(st.faults, "delStatus") = {}

\* no SetGeometry or CreateFeature of the call's rewrite reported an error status
NoAddStatus == FaultIdx(st.faults, "setGeom") = {} /\ FaultIdx(st.faults, "create") = {}

C12_Meets(i) ==
    /\ ~IsNullOrEmpty(st.pre[i].geom)
    /\ <<"areaRaise", i>> \notin st.faults
    /\ st.pre[i].geom.area >= st.arg

\* C12 as stated: with min_area > 0 the layer after a successful area filter holds
\* exactly the features that meet the criterion.
C12_Original ==
    (st.op = "area" /\ st.arg > 0 /\ st.ok)
        => Geoms(st.post) = SelectIdx(Geoms(st.pre), {i \in 1..Len(st.pre) : C12_Meets(i)}, 1)

\* C12: with min_area > 0, after a successful area filter whose rewrite met no error
\* status from DeleteFeature, SetGeometry or CreateFeature, the layer holds exactly the
\* features whose geometry is non-empty, whose area could be computed and whose area is
\* >= min_area, in their order; area 10 with min_area 20 is removed, area 25 is kept.
C12_AreaFilterKeeps ==
    (st.op = "area" /\ st.arg > 0 /\ st.ok /\ NoDeleteStatus /\ NoAddStatus)
        => /\ Geoms(st.post)
                = SelectIdx(Geoms(st.pre), {i \in 1..Len(st.pre) : C12_Meets(i)}, 1)
           /\ \A i \in 1..Len(st.post) : st.post[i].geom.area >= st.arg

\* min_area 20 on a layer of a feature of area 10 and a feature of area 25: the second
\* is the layer afterwards
C12_Witness ==
    /\ st.op = "area" /\ st.arg = 20 /\ st.ok /\ st.faults = {}
    /\ Len(st.pre) = 2
    /\ st.pre[1].geom.area = 10 /\ st.pre[2].geom.area = 25 /\ st.pre[2].geom.valid
    /\ Geoms(st.post) = <<st.pre[2].geom>>

\* C13 as stated: after the classify stage returns success every feature of the layer
\* has DN = 1 and a valid, non-empty geometry.
C13_Original ==
    (st.op = "dn" /\ st.ok)
        => \A i \in 1..Len(st.post) :
               st.post[i].fields["DN"] = 1 /\ GeomValid(st.post[i].geom)

\* C13: after the classify stage returns success, every feature of the layer has DN = 1
\* and a valid, non-empty geometry, on the path that skips the rewrite too, provided
\* no DeleteFeature of the rewrite reported an error status and no SetField raised.
C13_ClassifyLeavesDn1 ==
    (st.op = "dn" /\ st.ok /\ NoDeleteStatus /\ FaultIdx(st.faults, "setField") = {})
        => \A i \in 1..Len(st.post) :
               st.post[i].fields["DN"] = 1 /\ GeomValid(st.post[i].geom)

\* a layer of a DN = 1 feature and a DN = 0 feature is rewritten to the first one
C13_Witness ==
    /\ st.op = "dn" /\ st.ok /\ st.rewrite /\ st.faults = {}
    /\ Len(st.pre) = 2
    /\ st.pre[1].fields["DN"] = 1 /\ GeomValid(st.pre[1].geom)
    /\ st.pre[2].fields["DN"] = 0
    /\ Len(st.post) = 1

\* C14: simplify_layer with tolerance 0 and filter_layer_by_min_area with min_area 0
\* return success, leave the layer as it was and do not call the layer rewrite: no
\* transaction is started.
C14_ZeroParameterNoOp ==
    (st.op \in {"simplify", "area"} /\ st.arg = 0)
        => st.ok /\ st.post = st.pre /\ ~st.rewrite /\ ~st.tx

\* simplify_layer with tolerance 0 on a layer of two features
C14_Witness ==
    /\ st.op = "simplify" /\ st.arg = 0
    /\ Len(st.pre) = 2
    /\ st.ok /\ st.post = st.pre

\* C20 as stated: the classify stage returns failure whenever the schema has no DN
\* field, whatever the layer holds, an empty layer included.
C20_Original ==
    (st.op = "dn" /\ "DN" \notin st.sch) => ~st.ok

\* C20: when the schema has no DN field and the layer is not empty, the classify stage
\* returns failure without calling the rewrite and leaves the layer as it was; on an
\* empty layer it returns success before it looks for the field.
C20_NoDnFieldFails ==
    (st.op = "dn" /\ "DN" \notin st.sch)
        => /\ ~st.rewrite /\ ~st.tx /\ st.post = st.pre
           /\ st.ok = (Len(st.pre) = 0)

\* the stage called on two features of a layer without the DN field
C20_Witness ==
    /\ st.op = "dn" /\ "DN" \notin st.sch
    /\ Len(st.pre) = 2
    /\ ~st.ok /\ st.post = st.pre


(***************************************************************************)
(* Properties of _apply_chaikin_to_ring, under SpecRing.                   *)
(***************************************************************************)
\* C15: for a closed input ring of at least 4 points (first point = last point) and at
\* least one iteration, the returned ring has equal first and last points and at least
\* 4 points.
C15_ChaikinClosed ==
    (/\ ring.op = "call"
     /\ Len(ring.points) >= 4
     /\ ring.points[1] = ring.points[Len(ring.points)]
     /\ ring.iterations >= 1)
        => /\ Len(ring.out) >= 4
           /\ ring.out[1] = ring.out[Len(ring.out)]

\* two iterations on the closed unit square: 5 points, then 9, then 17
C15_Witness ==
    /\ ring.op = "call"
    /\ ring.points = <<(<<0, 0>>), (<<1, 0>>), (<<1, 1>>), (<<0, 1>>), (<<0, 0>>)>>
    /\ ring.iterations = 2
    /\ Len(ring.out) = 17
    /\ ring.denom = 16

LoopPcs == {"open", "poly_roads", "poly_buildings", "close"}

\* the loop of line 931 has been entered
LoopStarted == \A c \in Classes : schema[c] # {}

\* raster i was reached by the loop and no band of it was polygonized: it did not open
OpenFailed(i) ==
    /\ LoopStarted
    /\ i < ri
    /\ \A k \in 1..Len(polyLog["roads"]) : polyLog["roads"][k].raster # i

\* a raster failed to open, or an extraction of class c returned failure, or an
\* extraction raised
FailedFor(c) ==
    \/ \E i \in 1..Len(rasters) : OpenFailed(i)
    \/ \E k \in 1..Len(polyLog[c]) : ~polyLog[c][k].ok
    \/ \E d \in Classes : \E k \in 1..Len(polyLog[d]) : polyLog[d][k].raised

\* C17: a raster that fails to open, or whose extraction fails, does not end the run:
\* the loop goes on to the next raster until every raster has been opened, no critical
\* error is taken and no terminal signal is put; the class is then marked failed, its
\* post-processing is skipped, and the features the other rasters contributed are the
\* layer's content when the class ends.
C17_PerRasterFailureContinues ==
    [][/\ pc \in LoopPcs
            => /\ pc' \in LoopPcs \cup {"post"}
               /\ critical' = critical
               /\ signals' = signals
               /\ ri' \in {ri, ri + 1}
               /\ pc' = "post" => (ri' = Len(rasters) + 1 /\ nOpen' = 2 * Len(rasters))
       /\ \A c \in Classes :
             (LoopStarted /\ FailedFor(c))'
                => /\ ~allPolyOk'[c]
                   /\ ClassEnded(c)'
                         => /\ ~success'[c]
                            /\ called'[c] = <<>>
                            /\ layer'[c] = Extracted(c, polyLog[c])'
                            /\ Len(layer'[c]) = SumAdded(polyLog'[c])]_vars

\* the roads band of the first raster was not polygonized, the second raster gave two
\* road features, which are in the layer at the end of a run that marks the roads failed
C17_Witness ==
    /\ pc = "done"
    /\ Len(rasters) = 2
    /\ Len(polyLog["roads"]) = 2
    /\ ~polyLog["roads"][1].ok /\ polyLog["roads"][1].raster = 1
    /\ polyLog["roads"][2].ok /\ polyLog["roads"][2].added = 2
    /\ Len(layer["roads"]) = 2
    /\ ~success["roads"]
    /\ ~critical

\* C18: at every point of a run at most one input raster dataset is open, and none is
\* open once the post-extraction stages have started.
C18_AtMostOneRasterOpen ==
    /\ Cardinality(openDs) <= 1
    /\ cur # "none" => openDs = {}


(***************************************************************************)
(* Properties of VectorizationApp, under SpecApp.                          *)
(***************************************************************************)
\* a terminal signal is on the queue, not yet drained
TerminalPending == \E i \in 1..Len(app.queue) : app.queue[i] \in TerminalSignals

\* C19: at most one worker thread runs run_processing, and the run button is disabled
\* from start_processing until process_log_queue has taken the run's terminal signal
\* off the queue: while a worker runs, and while its terminal signal is on the queue.
C19_NoSecondRun ==
    /\ app.workers <= 1
    /\ (app.workers > 0 \/ TerminalPending) => app.button = "disabled"
    /\ Cardinality({i \in 1..Len(app.queue) : app.queue[i] \in TerminalSignals}) <= 1

\* the second run, started after the first one's terminal signal was drained: its
\* worker has put a log message and the button is disabled again
C19_Witness ==
    /\ app.runs = 2
    /\ app.workers = 1
    /\ app.button = "disabled"
    /\ app.put = 1
    /\ app.queue = <<LogText(2, 1)>>

(***************************************************************************)
(* Properties of the post-processing of a class, under Spec.               *)
(***************************************************************************)
\* the stage functions called for class c
CalledSet(c) == {called[c][i] : i \in 1..Len(called[c])}

\* the flags of class c that are not smooth_ok: simp_ok, area_ok, fix_geom_ok, dn_ok
NonSmoothFlags(c) ==
    IF c = "roads" THEN {stOk[c][1], stOk[c][2], stOk[c][3], stOk[c][5]}
    ELSE {stOk[c][i] : i \in 1..4}

\* C21: smooth_layer_chaikin is called only for the roads and only with an iteration
\* count > 0; for the buildings, and for the roads with 0 iterations, it is never
\* called, smooth_ok (roads) is True, and the class outcome is the conjunction of the
\* other stages' results.
C21_SmoothOnlyRoadsWithIterations ==
    \A c \in Classes :
        /\ "smooth" \in CalledSet(c) => (c = "roads" /\ par[c].smooth > 0)
        /\ (c = "roads" /\ par[c].smooth = 0 /\ Len(stOk[c]) >= 4) => stOk[c][4]
        /\ (/\ c = "buildings" \/ par[c].smooth = 0
            /\ ClassEnded(c) /\ ~critical
            /\ Len(stOk[c]) = Len(StageOrder(c)))
               => success[c] = (NonSmoothFlags(c) = {TRUE})

\* the roads with 0 iterations: four stages called on a non-empty layer, no smoothing,
\* and the class succeeded
C21_Witness ==
    /\ pc = "done"
    /\ par["roads"].smooth = 0
    /\ called["roads"] = <<"simplify", "area", "fix", "dn">>
    /\ stOk["roads"] = <<TRUE, TRUE, TRUE, TRUE, TRUE>>
    /\ Len(layer["roads"]) > 0
    /\ success["roads"]

\* C22: what the timer callback has taken off the queue, followed by what is still on
\* it, is what the workers have put, in the order they put it: no message is lost,
\* duplicated or overtaken; and the queue is never full, so a put never waits, however
\* many messages are on the queue.
C22_OrderedNonBlockingChannel ==
    /\ app.got \o app.queue = app.sent
    /\ ~QueueFull(app.queue)
    /\ (app.workers > 0 /\ app.put < MaxLogs) => ENABLED WorkerLogs

\* the worker of the second run has put its log messages and its terminal signal while
\* the callback did not run; the first run's messages were all taken
C22_Witness ==
    /\ app.runs = 2
    /\ Len(app.queue) = MaxLogs + 1
    /\ app.queue[1] = LogText(2, 1)
    /\ app.queue[MaxLogs + 1] \in TerminalSignals
    /\ Len(app.got) >= 2


(***************************************************************************)
(* More properties of clear_and_repopulate_layer, under SpecLayer.         *)
(***************************************************************************)
\* C23: a call that started its transaction (lines 106-172) returns success iff
\* nothing raised up to and including CommitTransaction, in which case the layer holds
\* the committed content; deleted_count # original_count and added_count # kept_count
\* are logged only, the result is success all the same.
C23_SuccessIffCommitted ==
    (call.who # "none" /\ call.tx)
        => /\ call.ok <=> (call.raise = NoRaise)
           /\ call.ok => Len(call.post) = (Len(call.pre) - call.deleted) + call.added
           /\ ~call.ok => call.post = call.pre

\* both counts fall short (one delete reports an error status, one item has an empty
\* geometry) and the call returns success
C23_Witness ==
    /\ call.who # "none" /\ call.tx /\ call.ok
    /\ Len(call.pre) = 2 /\ call.deleted = 1
    /\ Len(call.items) = 2 /\ call.added = 1
    /\ call.items[2].geom.kind = "empty"
    /\ Len(call.post) = 2


(***************************************************************************)
(* More properties of the stage functions, under SpecStage.                *)
(***************************************************************************)
\* the features whose SimplifyPreserveTopology raised or gave an empty result
SimplifyFailed == FaultIdx(st.faults, "simpRaise") \cup FaultIdx(st.faults, "simpEmpty")

\* C24 as stated: the layer's feature count after a successful simplify stage with
\* tolerance > 0 equals the count before it.
C24_Original ==
    (st.op = "simplify" /\ st.arg > 0 /\ st.ok) => Len(st.post) = Len(st.pre)

\* C24: with tolerance > 0 the stage hands the rewrite one item per feature, and the
\* item of a feature whose simplification raised or gave an empty result has the
\* feature's unmodified geometry and attributes; after a successful stage the layer's
\* feature count equals the count before it, and those features are in it unmodified,
\* provided every feature had a non-null, non-empty geometry and no DeleteFeature,
\* SetGeometry or CreateFeature of the rewrite reported an error status.
C24_SimplifyKeepsFeatures ==
    (st.op = "simplify" /\ st.arg > 0)
        => /\ st.rewrite
                => /\ Len(st.items) = Len(st.pre)
                   /\ \A i \in SimplifyFailed :
                         /\ st.items[i].geom = st.pre[i].geom
                         /\ st.items[i].attributes = st.pre[i].fields
           /\ (/\ st.ok /\ NoDeleteStatus /\ NoAddStatus
               /\ \A i \in 1..Len(st.pre) : ~IsNullOrEmpty(st.pre[i].geom))
                  => /\ Len(st.post) = Len(st.pre)
                     /\ \A i \in SimplifyFailed :
                           /\ st.post[i].geom = st.pre[i].geom
                           /\ <<"setField", i>> \notin st.faults
                                 => st.post[i].fields = st.pre[i].fields

\* the simplification of the first of two features raised: it is in the layer as it
\* was, the second one simplified
C24_Witness ==
    /\ st.op = "simplify" /\ st.arg = 1 /\ st.ok
    /\ st.faults = {<<"simpRaise", 1>>}
    /\ Len(st.pre) = 2 /\ Len(st.post) = 2
    /\ st.post[1] = st.pre[1]
    /\ st.post[2].geom.form = "simplified"

\* feature i of the repair call under test had an invalid geometry that MakeValid
\* turned into a geometry collection
C25_Collection(i) ==
    /\ ~IsNullOrEmpty(st.pre[i].geom) /\ ~st.pre[i].geom.valid
    /\ st.mv[i].out = "geom" /\ st.mv[i].kind = "GeometryCollection"

\* the areas of the collection's members that are valid polygons
C25_MemberAreas(i) ==
    LET parts == st.mv[i].parts
        ext   == SelectIdx(parts, {k \in 1..Len(parts) :
                                      parts[k].kind = "Polygon" /\ parts[k].valid}, 1)
    IN  [k \in 1..Len(ext) |-> ext[k].area]

\* feature i is kept by the repair call under test
C25_Kept(i) ==
    IF C25_Collection(i)
    THEN Len(C25_MemberAreas(i)) >= 1 /\ st.mv[i].asmValid
    ELSE FixGeom(st.pre[i].geom, st.mv[i]).final.kind # "null"

C26_CountsOncePerFeature ==
    (st.op = "fix" /\ st.rewrite)
        => LET counts   == FixCounts(st.pre, st.mv)
               nonEmpty == {i \in 1..Len(st.pre) : ~IsNullOrEmpty(st.pre[i].geom)}
               dropped  == {i \in 1..Len(st.pre) :
                               FixGeom(st.pre[i].geom, st.mv[i]).final.kind = "null"}
           IN  /\ counts.discarded = Len(st.pre) - Len(st.items)
               /\ counts.discarded = Cardinality(dropped)
               /\ counts.invalid = counts.repaired + Cardinality(dropped \cap nonEmpty)


(***************************************************************************)
(* Properties of a whole run of run_processing, under SpecLive and Spec.   *)
(***************************************************************************)
\* C27: every run puts exactly one terminal signal, PROCESS_COMPLETE_SUCCESS or
\* PROCESS_COMPLETE_FAILURE, on the queue: never a second one, eventually one on
\* every path; the put is the run's last step, nothing is done or emitted after it.
C27_OneTerminalSignal ==
    /\ [](/\ Len(signals) <= 1
          /\ \A i \in 1..Len(signals) : signals[i] \in TerminalSignals
          /\ pc = "done" <=> Len(signals) = 1)
    /\ [][signals = <<>> /\ pc # "done"]_vars
    /\ <>(pc = "done" /\ Len(signals) = 1)

\* a run that created the output, took the critical-error handler and ended with the
\* failure signal
C27_Witness ==
    /\ pc = "done"
    /\ created /\ critical
    /\ cur = "roads"
    /\ signals = <<"PROCESS_COMPLETE_FAILURE">>

\* C28 as stated: when a class reports success at the end of a run, every feature of
\* its layer has DN = 1 and a valid, non-empty geometry.
C28_Original ==
    \A c \in Classes :
        (pc = "done" /\ success[c])
            => \A i \in 1..Len(layer[c]) :
                   layer[c][i].fields["DN"] = 1 /\ GeomValid(layer[c][i].geom)

\* C28: when a class reports success at the end of a run, every feature of its layer
\* has DN = 1 and a valid, non-empty geometry, whatever the stage parameters, provided
\* that in the rewrite of the class's DN filter no DeleteFeature reported an error
\* status and no SetField raised.
C28_SuccessMeansClean ==
    \A c \in Classes :
        (/\ pc = "done" /\ success[c]
         /\ FaultIdx(dnFaults[c], "delStatus") = {}
         /\ FaultIdx(dnFaults[c], "setField") = {})
            => \A i \in 1..Len(layer[c]) :
                   layer[c][i].fields["DN"] = 1 /\ GeomValid(layer[c][i].geom)

\* both classes succeeded with features left: the roads smoothed, the buildings with
\* the simplification and the area filter skipped
C28_Witness ==
    /\ pc = "done"
    /\ success["roads"] /\ success["buildings"]
    /\ par["roads"].smooth = 1
    /\ par["buildings"].simplify = 0 /\ par["buildings"].min_area = 0
    /\ Len(layer["roads"]) > 0 /\ Len(layer["buildings"]) > 0
    /\ layer["roads"][1].geom.form = "smoothed"
    /\ faults = 0

\* the run has ended in the except clause of lines 875-880: a raster of the validation
\* could not be opened, had no usable SRS, had fewer than 2 bands or another CRS
ValidationAborted ==
    /\ pc = "done"
    /\ nOpen >= 1
    /\ ri <= Len(rasters)
    /\ ~created

\* C29: a run that aborts because the validation of the rasters fails leaves the
\* output path as it was before the run: no output is created, and an output that was
\* there is still there, also when force_overwrite is on.
C29_ValidationAbortKeepsOutput ==
    ValidationAborted => (outFile = outFile0 /\ outFile # "new")


(***************************************************************************)
(* More properties of _apply_chaikin_to_ring, under SpecRing.              *)
(***************************************************************************)
\* C30: for a closed ring of n >= 4 points, one iteration turns m points into
\* 2 * (m - 1) + 1 points, more than m; every requested iteration is done, none stops
\* early on a count below 4; after k iterations the ring has 2^k * (n - 1) + 1 points.
C30_PointCount ==
    (/\ ring.op = "call"
     /\ Len(ring.points) >= 4
     /\ ring.points[1] = ring.points[Len(ring.points)])
        => LET n == Len(ring.points)
               k == ring.iterations
           IN  /\ Len(ring.out) = (2 ^ k) * (n - 1) + 1
               /\ ring.denom = 4 ^ k
               /\ k >= 1
                     => LET before == apply_chaikin_to_ring(ring.points, k - 1).points
                            m      == Len(before)
                        IN  /\ m >= 4
                            /\ Len(ring.out) = 2 * (m - 1) + 1
                            /\ Len(ring.out) > m

\* two iterations on a closed triangle of 4 points: 7 points, then 13
C30_Witness ==
    /\ ring.op = "call"
    /\ ring.points = <<(<<0, 0>>), (<<1, 0>>), (<<1, 1>>), (<<0, 0>>)>>
    /\ ring.iterations = 2
    /\ Len(ring.out) = 13

====
